---- MODULE Spec2Model ----
(***************************************************************************)
(* A model of the request handlers, validators and role checks of the      *)
(* Alx_DjangoLearnLab projects.  Text values are sequences of one-character*)
(* strings, so that trimming, escaping and substring tests are computed    *)
(* the way the Python code computes them.                                  *)
(***************************************************************************)
EXTENDS Integers, Sequences, FiniteSets, TLC

VARIABLES
    project,        \* the Django project this server runs
    current_year,   \* datetime.now().year, as read when a request is served
    import_year,    \* datetime.now().year as read when api/models.py was imported
    books,          \* rows of the advanced-api Book table
    next_id,        \* next primary key the Book table hands out
    req,            \* the request being answered
    resp,           \* the answer to req
    call,           \* the last call of a validator or cleaner, with its result
    shelf,          \* rows of the bookshelf Book table
    search_count,   \* request.session["search_count"] as stored; 0 while not set
    api_books,      \* rows of the api_project Book table
    api_next_id,    \* next primary key of the api_project Book table
    accounts,       \* the User rows with their UserProfile, grants and flags
    library_books,  \* primary keys of the relationship_app Book table
    searches,       \* the searches of one session that are being served together
    users,          \* primary keys of the rows of auth.User
    profiles,       \* rows of the UserProfile table
    user_seq,       \* next primary key of auth.User
    profile_seq,    \* next primary key of UserProfile
    copies,         \* the User instance each worker holds in memory
    did,            \* the last operation on a User instance and what it raised
    groups          \* rows of auth.Group with the codenames each group is granted

clockVars == <<current_year, import_year>>
apiVars == <<books, next_id>>
httpVars == <<req, resp>>
shelfVars == <<shelf, search_count>>
profileVars == <<users, profiles, user_seq, profile_seq, copies, did>>
projectVars == <<api_books, api_next_id>>
vars == <<project, current_year, import_year, books, next_id, req, resp, call,
          shelf, search_count, api_books, api_next_id, accounts, library_books,
          searches, users, profiles, user_seq, profile_seq, copies, did, groups>>

\* What a step of one project leaves alone in the others.
outsideClock == <<project, books, next_id, call, shelf, search_count, api_books, api_next_id, accounts, library_books, searches, profileVars, groups>>
outsideApi == <<project, call, shelf, search_count, api_books, api_next_id, accounts, library_books, searches, profileVars, groups>>
outsideCall == <<project, books, next_id, req, resp, shelf, search_count, api_books, api_next_id, accounts, library_books, searches, profileVars, groups>>
outsideShelf == <<project, books, next_id, call, api_books, api_next_id, accounts, library_books, searches, profileVars, groups>>
outsideProject == <<project, books, next_id, call, shelf, search_count, accounts, library_books, searches, profileVars, groups>>
outsideSearches == <<project, current_year, import_year, books, next_id, req, resp, call, shelf, api_books, api_next_id, accounts, library_books, profileVars, groups>>
outsideProfiles == <<project, current_year, import_year, books, next_id, req, resp, call, shelf, search_count, api_books, api_next_id, accounts, library_books, searches, groups>>
outsideGroups == <<project, current_year, import_year, books, next_id, req, resp, shelf, search_count, api_books, api_next_id, accounts, library_books, searches, profileVars>>
outsideRoles == <<project, books, next_id, call, shelf, search_count, api_books, api_next_id, searches, profileVars, groups>>

(***************************************************************************)
(* Bounds of the model.                                                    *)
(***************************************************************************)
MaxLen == 2         \* longest title a client submits
ClockSpan == 1      \* years the clock may advance past the first year
MaxBooks == 2       \* Book rows ever inserted through the advanced-api
NumAuthors == 2     \* rows of the Author table
MaxPasses == 2      \* times a cleaner is run on its own output
NumUsers == 1       \* User rows
NumWorkers == 2     \* server workers that serve requests of one session together
MaxAccounts == 1    \* User rows ever inserted with a new primary key
MaxProfiles == 2    \* UserProfile rows ever inserted

(***************************************************************************)
(* Text helpers: Python's str.strip() and len().                           *)
(***************************************************************************)
Whitespace == {" "}

RECURSIVE LStrip(_)
LStrip(s) ==
    IF s # <<>> /\ Head(s) \in Whitespace THEN LStrip(Tail(s)) ELSE s

RECURSIVE RStrip(_)
RStrip(s) ==
    IF s # <<>> /\ s[Len(s)] \in Whitespace
    THEN RStrip(SubSeq(s, 1, Len(s) - 1))
    ELSE s

Strip(s) == RStrip(LStrip(s))

Texts(alphabet, n) == UNION {[1..k -> alphabet] : k \in 0..n}

\* django.utils.html.escape: & < > " ' become character references.
EscapeChar(c) ==
    CASE c = "&" -> <<"&", "a", "m", "p", ";">>
      [] c = "<" -> <<"&", "l", "t", ";">>
      [] c = ">" -> <<"&", "g", "t", ";">>
      [] c = "\"" -> <<"&", "q", "u", "o", "t", ";">>
      [] c = "'" -> <<"&", "#", "x", "2", "7", ";">>
      [] OTHER -> <<c>>

RECURSIVE Escape(_)
Escape(s) ==
    IF s = <<>> THEN <<>>
    ELSE IF Len(s) = 1 THEN EscapeChar(s[1])
    ELSE LET half == Len(s) \div 2
         IN  Escape(SubSeq(s, 1, half)) \o Escape(SubSeq(s, half + 1, Len(s)))

\* escape(value.strip()), the first statement of every clean_<field>.
Sanitize(s) == Escape(Strip(s))

UpperCase == <<"A", "B", "C", "D", "E", "F", "G", "H", "I", "J", "K", "L", "M", "N", "O", "P", "Q", "R", "S", "T", "U", "V", "W", "X", "Y", "Z">>
LowerCase == <<"a", "b", "c", "d", "e", "f", "g", "h", "i", "j", "k", "l", "m", "n", "o", "p", "q", "r", "s", "t", "u", "v", "w", "x", "y", "z">>
Digits == {"0", "1", "2", "3", "4", "5", "6", "7", "8", "9"}
Letters == {UpperCase[i] : i \in 1..26} \cup {LowerCase[i] : i \in 1..26}

\* str.lower(), one character at a time.
LowerChar(c) ==
    IF \E i \in 1..26 : UpperCase[i] = c
    THEN LowerCase[CHOOSE i \in 1..26 : UpperCase[i] = c]
    ELSE c

Lower(s) == [i \in 1..Len(s) |-> LowerChar(s[i])]

\* str.upper(), and the first letter in upper case: how a client may write a word.
UpperChar(c) ==
    IF \E i \in 1..26 : LowerCase[i] = c
    THEN UpperCase[CHOOSE i \in 1..26 : LowerCase[i] = c]
    ELSE c

Upper(s) == [i \in 1..Len(s) |-> UpperChar(s[i])]

Capitalize(s) == [i \in 1..Len(s) |-> IF i = 1 THEN UpperChar(s[i]) ELSE s[i]]

\* Python's "needle in haystack" on strings.
Contains(haystack, needle) ==
    \E i \in 0..(Len(haystack) - Len(needle)) :
        SubSeq(haystack, i + 1, i + Len(needle)) = needle

\* re.match(r"^[...]+$", s) for a character class given as a set.
MatchesClass(s, class) == s # <<>> /\ \A i \in 1..Len(s) : s[i] \in class

(***************************************************************************)
(* The clock.  The first year served is the year the bookshelf form was    *)
(* written for: its max_value is "current year + 1".                       *)
(***************************************************************************)
FormMaxYear == 2025
FirstYear == FormMaxYear - 1
LastYear == FirstYear + ClockSpan
MinYear == 1000

\* New Year: datetime.now().year grows by one.
Tick ==
    /\ current_year < LastYear
    /\ current_year' = current_year + 1
    /\ UNCHANGED <<import_year, req, resp, outsideClock>>

\* The server process is restarted: api/models.py is imported again and
\* MaxValueValidator(datetime.now().year) is built with the year of that day.
Restart ==
    /\ import_year # current_year
    /\ import_year' = current_year
    /\ UNCHANGED <<current_year, req, resp, outsideClock>>

(***************************************************************************)
(* The advanced-api project: Author and Book tables, BookSerializer.       *)
(***************************************************************************)
AuthorIds == 1..NumAuthors

TitleInputs == Texts({" ", "a"}, MaxLen)
YearInputs == {MinYear - 1, MinYear} \cup (FirstYear..(LastYear + 1))
BookIds == 1..MaxBooks


BookFields == {"title", "publication_year", "author"}

\* The body of a POST, PUT or PATCH: the fields the client sent and their
\* values (a field that was not sent has the filler value).
DataInputs ==
    {d \in [fields : SUBSET BookFields, title : TitleInputs,
            publication_year : YearInputs \cup {0}, author : (1..(NumAuthors + 1)) \cup {0}] :
        /\ "title" \notin d.fields => d.title = <<>>
        /\ ("publication_year" \in d.fields) = (d.publication_year # 0)
        /\ ("author" \in d.fields) = (d.author # 0)}

Triple(b) == <<b.title, b.author, b.publication_year>>

\* validate_publication_year with >= for >: the current year is refused.
ValidatePublicationYear_current_refused(value, now) ==
    IF value >= now THEN [error |-> "future", value |-> 0]
    ELSE IF value < MinYear THEN [error |-> "too_old", value |-> 0]
    ELSE [error |-> "ok", value |-> value]

\* validate_publication_year: the error it raises, or "ok" when it returns value.
ValidatePublicationYear(value, now) ==
    IF value > now THEN [error |-> "future", value |-> 0]
    ELSE IF value < MinYear THEN [error |-> "too_old", value |-> 0]
    ELSE [error |-> "ok", value |-> value]

\* validate(data): data.get('title', '').strip() must have two characters.
ValidateBook(data) ==
    LET title == Strip(IF "title" \in data.fields THEN data.title ELSE <<>>)
    IN  IF title = <<>> THEN "title_empty"
        ELSE IF Len(title) < 2 THEN "title_short"
        ELSE "ok"

\* The serializer field for title: CharField(max_length=200), trimmed, not blank.
TitleFieldErrors(d, partial) ==
    IF "title" \notin d.fields
    THEN IF partial THEN {} ELSE {"title.required"}
    ELSE IF Strip(d.title) = <<>> THEN {"title.blank"}
    ELSE IF Len(Strip(d.title)) > 200 THEN {"title.max_length"}
    ELSE {}

\* The serializer field for publication_year: the model's MaxValueValidator,
\* then validate_publication_year.
YearFieldErrors(d, partial, now, imported) ==
    IF "publication_year" \notin d.fields
    THEN IF partial THEN {} ELSE {"publication_year.required"}
    ELSE IF d.publication_year > imported THEN {"publication_year.max_value"}
    ELSE IF ValidatePublicationYear(d.publication_year, now).error # "ok"
    THEN {"publication_year." \o ValidatePublicationYear(d.publication_year, now).error}
    ELSE {}

\* The serializer field for author: a primary key of an existing Author.
AuthorFieldErrors(d, partial) ==
    IF "author" \notin d.fields
    THEN IF partial THEN {} ELSE {"author.required"}
    ELSE IF d.author \notin AuthorIds THEN {"author.does_not_exist"}
    ELSE {}

\* The validated data: sent fields, with the title trimmed.
Internal(d) == [d EXCEPT !.title = Strip(d.title)]

\* The row the serializer would save: validated data over the instance.
Merged(d, instance) ==
    [id |-> instance.id,
     title |-> IF "title" \in d.fields THEN d.title ELSE instance.title,
     publication_year |-> IF "publication_year" \in d.fields
                          THEN d.publication_year ELSE instance.publication_year,
     author |-> IF "author" \in d.fields THEN d.author ELSE instance.author]

\* unique_together left out of Book.Meta: no row ever collides.
UniqueTogetherErrors_off(row, table) == {}

\* UniqueTogetherValidator of unique_together: another row holds the triple.
UniqueTogetherErrors(row, table) ==
    IF \E b \in table : b.id # row.id /\ Triple(b) = Triple(row)
    THEN {"unique"}
    ELSE {}

\* is_valid() that skips every check on a partial update.
SerializerErrors_partial_unchecked(d, instance, partial, table, now, imported) ==
    IF partial THEN {}
    ELSE LET fieldErrors == TitleFieldErrors(d, FALSE)
                           \cup YearFieldErrors(d, FALSE, now, imported)
                           \cup AuthorFieldErrors(d, FALSE)
             unique == UniqueTogetherErrors(Merged(Internal(d), instance), table)
         IN  IF fieldErrors # {} THEN fieldErrors
             ELSE IF unique # {} THEN unique
             ELSE IF ValidateBook(Internal(d)) # "ok"
             THEN {"title." \o ValidateBook(Internal(d))}
             ELSE {}

\* serializer.is_valid(): field errors are collected; the unique-together
\* validator and validate() run only when every field passed.
SerializerErrors(d, instance, partial, table, now, imported) ==
    LET fieldErrors == TitleFieldErrors(d, partial)
                       \cup YearFieldErrors(d, partial, now, imported)
                       \cup AuthorFieldErrors(d, partial)
        unique == UniqueTogetherErrors(Merged(Internal(d), instance), table)
    IN  IF fieldErrors # {} THEN fieldErrors
        ELSE IF unique # {} THEN unique
        ELSE IF ValidateBook(Internal(d)) # "ok" THEN {"title." \o ValidateBook(Internal(d))}
        ELSE {}

NoInstance == [id |-> 0, title |-> <<>>, publication_year |-> 0, author |-> 0]
NoData == [fields |-> {}, title |-> <<>>, publication_year |-> 0, author |-> 0]

NoPost == [form |-> "none"]

\* request.user of a request without a logged-in session.
Anonymous == 0

\* The query string of a list request without parameters; a parameter that
\* is absent and one that is empty are treated alike by every backend.
NoParams == [author |-> <<>>, publication_year |-> 0, publication_year_gte |-> 0,
             publication_year_lte |-> 0, search |-> <<>>, ordering |-> ""]

NoRequest == [view |-> "none", method |-> "NONE", auth |-> FALSE, user |-> Anonymous,
              id |-> 0, data |-> NoData, post |-> NoPost]
NoResponse == [view |-> "none", method |-> "NONE", request |-> NoRequest,
               status |-> 0, errors |-> {}, id |-> 0, message |-> "none",
               found |-> {}, results |-> <<>>]

Idle == req.view = "none"

\* The answer to the request in hand, with the message the view flashes.
Reply(status, errors, id, message) ==
    [view |-> req.view, method |-> req.method, request |-> req, status |-> status,
     errors |-> errors, id |-> id, message |-> message, found |-> {},
     results |-> <<>>]

\* The requests a client sends to the advanced-api Book endpoints.
ApiRequests ==
    {r \in [view : {"BookListView", "BookDetailView"},
            method : {"GET", "POST", "PUT", "PATCH", "DELETE"},
            auth : BOOLEAN, user : {Anonymous}, id : BookIds \cup {0},
            data : DataInputs, post : {NoPost}, params : {NoParams}] :
        /\ (r.view = "BookListView") = (r.method \in {"GET", "POST"} /\ r.id = 0)
        /\ r.method \in {"GET", "DELETE"} => r.data = NoData}

\* permission_classes = [IsAuthenticatedOrReadOnly] of both views: the safe
\* methods pass for everybody, the others for an authenticated user only.
IsAuthenticatedOrReadOnly_allow_any(method, auth) ==
    TRUE

IsAuthenticatedOrReadOnly(method, auth) ==
    method = "GET" \/ auth

\* The client has read the answer; the connection is free for the next request.
Deliver ==
    /\ Idle
    /\ resp # NoResponse
    /\ resp' = NoResponse
    /\ UNCHANGED <<clockVars, req, outsideClock>>

\* A client sends a request to the advanced-api.
SendApi ==
    /\ project = "advanced-api-project"
    /\ Idle
    /\ resp = NoResponse
    /\ \E r \in ApiRequests :
        /\ r.method = "POST" => next_id <= MaxBooks
        /\ req' = r
    /\ UNCHANGED <<clockVars, apiVars, resp, outsideApi>>

\* The permission check of APIView.initial fails: the view's handler is not
\* called; the status depends on the authentication classes.
Api_permission_denied ==
    /\ req.view \in {"BookListView", "BookDetailView"}
    /\ ~IsAuthenticatedOrReadOnly(req.method, req.auth)
    /\ \E status \in {401, 403} : resp' = Reply(status, {"not_authenticated"}, req.id, "none")
    /\ req' = NoRequest
    /\ UNCHANGED <<clockVars, apiVars, outsideApi>>

\* create that calls is_valid() without raise_exception and saves anyway.
BookListView_create_unchecked ==
    /\ req.view = "BookListView" /\ req.method = "POST"
    /\ IsAuthenticatedOrReadOnly(req.method, req.auth)
    /\ LET d == req.data
           row == Merged(Internal(d), [NoInstance EXCEPT !.id = next_id])
       IN  /\ books' = books \cup {row}
           /\ next_id' = next_id + 1
           /\ resp' = Reply(201, {}, row.id, "none")
    /\ req' = NoRequest
    /\ UNCHANGED <<clockVars, outsideApi>>

\* The code point of a character of the titles the catalogue holds.
CodePoint(c) ==
    CASE c = " " -> 32
      [] c = "B" -> 66
      [] c = "a" -> 97
      [] c = "b" -> 98

\* s sorts before t in the database's binary collation of a CharField.
TextBefore(s, t) ==
    \E k \in 0..Len(s) :
        /\ k <= Len(t)
        /\ SubSeq(s, 1, k) = SubSeq(t, 1, k)
        /\ \/ k = Len(s) /\ k < Len(t)
           \/ k < Len(s) /\ k < Len(t) /\ CodePoint(s[k + 1]) < CodePoint(t[k + 1])

\* DjangoFilterBackend with BookFilter: every filter whose parameter is not
\* empty narrows the queryset.  author is a CharFilter with icontains on the
\* ForeignKey Book.author, a lookup the ORM refuses with FieldError.
BookFilter(params, table) ==
    IF params.author # <<>>
    THEN [raised |-> "FieldError", rows |-> {}]
    ELSE [raised |-> "none",
          rows |-> {b \in table :
                      /\ params.publication_year # 0 =>
                            b.publication_year = params.publication_year
                      /\ params.publication_year_gte # 0 =>
                            b.publication_year >= params.publication_year_gte
                      /\ params.publication_year_lte # 0 =>
                            b.publication_year <= params.publication_year_lte}]

\* SearchFilter with search_fields = ['title', 'author']: a search term is
\* looked up with title__icontains OR author__icontains, and the second is
\* refused by the ORM like the author filter.
SearchFilter(params, table) ==
    IF Strip(params.search) # <<>>
    THEN [raised |-> "FieldError", rows |-> {}]
    ELSE [raised |-> "none", rows |-> table]

\* An OrderingFilter that leaves the rows in any order.
OrderingFilter_unsorted(params, table) ==
    {s \in [1..Cardinality(table) -> {b.id : b \in table}] :
        \A i, j \in 1..Cardinality(table) : i < j => s[i] # s[j]}

\* OrderingFilter: the requested term when it names one of ordering_fields,
\* else the view's default ['title']; rows with equal keys come in any order.
OrderingFilter(params, table) ==
    LET term == IF params.ordering \in {"title", "-title", "publication_year"}
                THEN params.ordering ELSE "title"
        row(id) == CHOOSE b \in table : b.id = id
        InOrder(a, b) ==
            CASE term = "title" -> ~TextBefore(b.title, a.title)
              [] term = "-title" -> ~TextBefore(a.title, b.title)
              [] term = "publication_year" -> a.publication_year <= b.publication_year
    IN  {s \in [1..Cardinality(table) -> {b.id : b \in table}] :
            \A i, j \in 1..Cardinality(table) :
                i < j => s[i] # s[j] /\ InOrder(row(s[i]), row(s[j]))}

\* A client asks for the list of books with a query string.
SendApiList ==
    /\ project = "advanced-api-project"
    /\ Idle
    /\ resp = NoResponse
    /\ \E params \in [author : {<<>>, <<"a">>},
                      publication_year : {0, FirstYear - 1, FirstYear},
                      publication_year_gte : {0, FirstYear},
                      publication_year_lte : {0, FirstYear - 1},
                      search : {<<>>, <<"a">>},
                      ordering : {"", "title", "-title", "publication_year"}] :
        req' = [NoRequest EXCEPT !.view = "BookListView", !.method = "GET"]
                   @@ [params |-> params]
    /\ UNCHANGED <<clockVars, apiVars, resp, outsideApi>>

\* BookListView.list (GET /books/): the queryset goes through the filter
\* backends in their order; no pagination class is configured.
BookListView_list ==
    /\ req.view = "BookListView" /\ req.method = "GET"
    /\ IsAuthenticatedOrReadOnly(req.method, req.auth)
    /\ LET filtered == BookFilter(req.params, books)
           searched == IF filtered.raised # "none" THEN filtered
                       ELSE SearchFilter(req.params, filtered.rows)
       IN  IF searched.raised # "none"
           THEN resp' = Reply(500, {searched.raised}, 0, "none")
           ELSE \E order \in OrderingFilter(req.params, searched.rows) :
                    resp' = [Reply(200, {}, 0, "none")
                                EXCEPT !.found = {b.id : b \in searched.rows},
                                       !.results = order]
    /\ req' = NoRequest
    /\ UNCHANGED <<clockVars, apiVars, outsideApi>>

\* BookDetailView.retrieve (GET /books/<pk>/).
BookDetailView_retrieve ==
    /\ req.view = "BookDetailView" /\ req.method = "GET"
    /\ IsAuthenticatedOrReadOnly(req.method, req.auth)
    /\ LET pk == req.id
       IN  IF \E b \in books : b.id = pk
           THEN resp' = [Reply(200, {}, pk, "Book retrieved successfully")
                            EXCEPT !.found = {pk}]
           ELSE resp' = Reply(404, {"not_found"}, pk, "none")
    /\ req' = NoRequest
    /\ UNCHANGED <<clockVars, apiVars, outsideApi>>

\* BookListView.create (POST /books/).
BookListView_create ==
    /\ req.view = "BookListView" /\ req.method = "POST"
    /\ IsAuthenticatedOrReadOnly(req.method, req.auth)
    /\ LET d == req.data
           errors == SerializerErrors(d, NoInstance, FALSE, books,
                                      current_year, import_year)
           row == Merged(Internal(d), [NoInstance EXCEPT !.id = next_id])
       IN  IF errors = {}
           THEN /\ books' = books \cup {row}
                /\ next_id' = next_id + 1
                /\ resp' = Reply(201, {}, row.id, "none")
           ELSE /\ UNCHANGED <<books, next_id>>
                /\ resp' = Reply(400, errors, 0, "none")
    /\ req' = NoRequest
    /\ UNCHANGED <<clockVars, outsideApi>>

\* BookDetailView.update, reached by PUT (partial=False) and by PATCH
\* (partial_update sets partial=True).
BookDetailView_update ==
    /\ req.view = "BookDetailView" /\ req.method \in {"PUT", "PATCH"}
    /\ IsAuthenticatedOrReadOnly(req.method, req.auth)
    /\ LET d == req.data
           pk == req.id
           partial == (req.method = "PATCH")
       IN  IF \E b \in books : b.id = pk
           THEN LET instance == CHOOSE b \in books : b.id = pk
                    errors == SerializerErrors(d, instance, partial, books,
                                               current_year, import_year)
                IN  IF errors = {}
                    THEN /\ books' = (books \ {instance})
                                     \cup {Merged(Internal(d), instance)}
                         /\ resp' = Reply(200, {}, pk, "none")
                    ELSE /\ UNCHANGED books
                         /\ resp' = Reply(400, errors, pk, "none")
           ELSE /\ UNCHANGED books
                /\ resp' = Reply(404, {"not_found"}, pk, "none")
    /\ req' = NoRequest
    /\ UNCHANGED <<next_id, clockVars, outsideApi>>

\* destroy that empties the table instead of deleting the instance.
BookDetailView_destroy_all ==
    /\ req.view = "BookDetailView" /\ req.method = "DELETE"
    /\ IsAuthenticatedOrReadOnly(req.method, req.auth)
    /\ books' = {}
    /\ resp' = Reply(204, {}, req.id, "none")
    /\ req' = NoRequest
    /\ UNCHANGED <<next_id, clockVars, outsideApi>>

\* BookDetailView.destroy (DELETE /books/<pk>/).
BookDetailView_destroy ==
    /\ req.view = "BookDetailView" /\ req.method = "DELETE"
    /\ IsAuthenticatedOrReadOnly(req.method, req.auth)
    /\ LET pk == req.id
       IN  IF \E b \in books : b.id = pk
           THEN /\ books' = {b \in books : b.id # pk}
                /\ resp' = Reply(204, {}, pk, "none")
           ELSE /\ UNCHANGED books
                /\ resp' = Reply(404, {"not_found"}, pk, "none")
    /\ req' = NoRequest
    /\ UNCHANGED <<next_id, clockVars, outsideApi>>

(***************************************************************************)
(* The bookshelf forms (advanced_features_and_security).                   *)
(***************************************************************************)
Ok(v) == [error |-> "ok", value |-> v]
Err(code) == [error |-> code, value |-> <<>>]

\* forms.CharField.clean: strip, then required, then max_length.
CharFieldClean(raw, required, max_length) ==
    LET v == Strip(raw)
    IN  IF v = <<>> THEN (IF required THEN Err("required") ELSE Ok(v))
        ELSE IF Len(v) > max_length THEN Err("max_length")
        ELSE Ok(v)


\* SecureBookForm.clean_title, given cleaned_data["title"].
SecureBookForm_clean_title(title) ==
    IF title = <<>> THEN Ok(title)
    ELSE LET t == Sanitize(title)
         IN  IF Len(t) < 2 THEN Err("too_short")
             ELSE IF Len(t) > 200 THEN Err("too_long")
             ELSE Ok(t)

\* SecureBookForm.clean_description, given cleaned_data["description"].
SecureBookForm_clean_description(description) ==
    IF description = <<>> THEN Ok(description)
    ELSE LET t == Sanitize(description)
         IN  IF Len(t) > 1000 THEN Err("too_long")
             ELSE Ok(t)

\* SecureBookForm.publication_year: IntegerField(min_value=1000, max_value=2025);
\* 0 stands for a blank field.
SecureBookForm_publication_year(year) ==
    IF year = 0 THEN [error |-> "required", value |-> 0]
    ELSE IF year < MinYear THEN [error |-> "min_value", value |-> 0]
    ELSE IF year > FormMaxYear THEN [error |-> "max_value", value |-> 0]
    ELSE [error |-> "ok", value |-> year]



\* SecureBookForm.clean_author, given cleaned_data["author"].
SecureBookForm_clean_author(author) ==
    IF author = <<>> THEN Ok(author)
    ELSE LET a == Sanitize(author)
         IN  IF ~MatchesClass(a, (Letters \cup Whitespace \cup {".", "-", "'", ","})) THEN Err("invalid_chars")
             ELSE IF Len(a) < 2 THEN Err("too_short")
             ELSE Ok(a)

RECURSIVE WithoutSpacesAndHyphens(_)
WithoutSpacesAndHyphens(s) ==
    IF s = <<>> THEN <<>>
    ELSE IF Head(s) \in Whitespace \cup {"-"} THEN WithoutSpacesAndHyphens(Tail(s))
    ELSE <<Head(s)>> \o WithoutSpacesAndHyphens(Tail(s))

\* re.match(r"^(\d{9}[\dX]|\d{13})$", isbn_clean)
IsIsbn(s) ==
    \/ /\ Len(s) = 10
       /\ \A i \in 1..9 : s[i] \in Digits
       /\ s[10] \in Digits \cup {"X"}
    \/ /\ Len(s) = 13
       /\ \A i \in 1..13 : s[i] \in Digits

\* SecureBookForm.clean_isbn, given cleaned_data["isbn"].
SecureBookForm_clean_isbn(isbn) ==
    IF isbn = <<>> THEN Ok(isbn)
    ELSE IF ~IsIsbn(WithoutSpacesAndHyphens(isbn)) THEN Err("invalid_isbn")
    ELSE Ok(Strip(isbn))

\* A CharField followed by the form's clean_<field>.
Cleaned(field, cleaner_result) ==
    IF field.error # "ok" THEN field ELSE cleaner_result

FieldError(name, result) ==
    IF result.error = "ok" THEN {} ELSE {name}

\* SecureBookForm(request.POST): the cleaned value or the error of every field.
SecureBookForm(post) ==
    LET title_field == CharFieldClean(post.title, TRUE, 200)
        author_field == CharFieldClean(post.author, TRUE, 100)
        isbn_field == CharFieldClean(post.isbn, FALSE, 17)
        description_field == CharFieldClean(post.description, FALSE, 1000)
    IN  [title |-> Cleaned(title_field, SecureBookForm_clean_title(title_field.value)),
         author |-> Cleaned(author_field, SecureBookForm_clean_author(author_field.value)),
         publication_year |-> SecureBookForm_publication_year(post.publication_year),
         isbn |-> Cleaned(isbn_field, SecureBookForm_clean_isbn(isbn_field.value)),
         description |-> Cleaned(description_field,
                                 SecureBookForm_clean_description(description_field.value))]

SecureBookForm_errors(post) ==
    LET f == SecureBookForm(post)
    IN  FieldError("title", f.title) \cup FieldError("author", f.author)
        \cup FieldError("publication_year", f.publication_year)
        \cup FieldError("isbn", f.isbn) \cup FieldError("description", f.description)

\* SecureCommentForm.clean_name, given cleaned_data["name"].
SecureCommentForm_clean_name(name) ==
    IF name = <<>> THEN Ok(name)
    ELSE LET n == Sanitize(name)
         IN  IF ~MatchesClass(n, (Letters \cup Whitespace \cup {".", "-", "'"})) THEN Err("invalid_chars")
             ELSE IF Len(n) < 2 THEN Err("too_short")
             ELSE Ok(n)

SpamIndicators == {<<"h", "t", "t", "p", ":", "/", "/">>, <<"h", "t", "t", "p", "s", ":", "/", "/">>, <<"w", "w", "w", ".">>, <<"c", "l", "i", "c", "k", " ", "h", "e", "r", "e">>, <<"b", "u", "y", " ", "n", "o", "w">>}

\* clean_comment comparing the phrases with the comment as typed.
SecureCommentForm_clean_comment_as_typed(comment) ==
    IF comment = <<>> THEN Ok(comment)
    ELSE LET c == Sanitize(comment)
         IN  IF Len(c) < 5 THEN Err("too_short")
             ELSE IF \E indicator \in SpamIndicators : Contains(c, indicator)
             THEN Err("spam")
             ELSE Ok(c)

\* SecureCommentForm.clean_comment, given cleaned_data["comment"].
SecureCommentForm_clean_comment(comment) ==
    IF comment = <<>> THEN Ok(comment)
    ELSE LET c == Sanitize(comment)
         IN  IF Len(c) < 5 THEN Err("too_short")
             ELSE IF \E indicator \in SpamIndicators : Contains(Lower(c), indicator)
             THEN Err("spam")
             ELSE Ok(c)

\* forms.EmailField(required=False): blank, or an address with a local part
\* and a domain around one "@".
EmailFieldClean(raw) ==
    LET v == Strip(raw)
    IN  IF v = <<>> THEN Ok(v)
        ELSE IF Cardinality({i \in 1..Len(v) : v[i] = "@"}) = 1
                /\ v[1] # "@" /\ v[Len(v)] # "@"
        THEN Ok(v)
        ELSE Err("invalid")

\* forms.ChoiceField(required=False): blank, or one of the choices.
ChoiceFieldClean(raw, choices) ==
    IF raw = "" THEN [error |-> "ok", value |-> ""]
    ELSE IF raw \in choices THEN [error |-> "ok", value |-> raw]
    ELSE [error |-> "invalid_choice", value |-> ""]


\* SecureCommentForm(request.POST).
SecureCommentForm(post) ==
    LET name_field == CharFieldClean(post.name, TRUE, 100)
        comment_field == CharFieldClean(post.comment, TRUE, 1000)
    IN  [name |-> Cleaned(name_field, SecureCommentForm_clean_name(name_field.value)),
         email |-> EmailFieldClean(post.email),
         comment |-> Cleaned(comment_field,
                             SecureCommentForm_clean_comment(comment_field.value)),
         rating |-> ChoiceFieldClean(post.rating, {"1", "2", "3", "4", "5"})]

SecureCommentForm_errors(post) ==
    LET f == SecureCommentForm(post)
    IN  FieldError("name", f.name) \cup FieldError("email", f.email)
        \cup FieldError("comment", f.comment) \cup FieldError("rating", f.rating)

\* clean_query without the test of the query's characters.
BookSearchForm_clean_query_any_character(query) ==
    IF query = <<>> THEN Ok(query)
    ELSE LET q == Sanitize(query)
         IN  IF Len(q) > 200 THEN Err("too_long")
             ELSE IF Len(q) < 2 THEN Err("too_short")
             ELSE Ok(q)

\* BookSearchForm.clean_query, given cleaned_data["query"].
BookSearchForm_clean_query(query) ==
    IF query = <<>> THEN Ok(query)
    ELSE LET q == Sanitize(query)
         IN  IF ~MatchesClass(q, (Letters \cup Digits \cup Whitespace \cup {"-", ".", ",", "'", "\"", "(", ")"})) THEN Err("invalid_chars")
             ELSE IF Len(q) > 200 THEN Err("too_long")
             ELSE IF Len(q) < 2 THEN Err("too_short")
             ELSE Ok(q)

\* BookSearchForm(request.POST).
BookSearchForm(post) ==
    LET query_field == CharFieldClean(post.query, TRUE, 200)
    IN  [query |-> Cleaned(query_field, BookSearchForm_clean_query(query_field.value)),
         search_type |-> ChoiceFieldClean(post.search_type, {"all", "title", "author", "isbn"})]

BookSearchForm_errors(post) ==
    LET f == BookSearchForm(post)
    IN  FieldError("query", f.query) \cup FieldError("search_type", f.search_type)

\* clean_name that tests the length before the characters.
ExampleForm_clean_name_length_first(name) ==
    IF name = <<>> THEN Ok(name)
    ELSE LET n == Sanitize(name)
         IN  IF Len(n) < 2 THEN Err("too_short")
             ELSE IF ~MatchesClass(n, (Letters \cup Whitespace \cup {"-", "'", "."})) THEN Err("invalid_chars")
             ELSE Ok(n)

\* ExampleForm.clean_name, given cleaned_data["name"].
ExampleForm_clean_name(name) ==
    IF name = <<>> THEN Ok(name)
    ELSE LET n == Sanitize(name)
         IN  IF ~MatchesClass(n, (Letters \cup Whitespace \cup {"-", "'", "."})) THEN Err("invalid_chars")
             ELSE IF Len(n) < 2 THEN Err("too_short")
             ELSE Ok(n)

\* SecureContactForm(request.POST).is_valid(): the names of the fields in
\* error.  Every field is cleaned by its Field class and then by the form's
\* clean_<field>, which sees the field's cleaned value.
SecureContactForm_errors(post) ==
    LET in_order(s, a, b) ==
            \E i \in 1..Len(s) : Contains(SubSeq(s, 1, i), a)
                                  /\ Contains(SubSeq(s, i + 1, Len(s)), b)
        clean_subject(subject) ==
            IF subject = <<>> THEN Ok(subject)
            ELSE IF Len(Escape(Strip(subject))) < 3 THEN Err("min_length")
            ELSE Ok(Escape(Strip(subject)))
        clean_phone(phone) ==
            LET phone_clean == SelectSeq(phone, LAMBDA c :
                                   c \notin Whitespace \cup {"-", "(", ")", "+"})
            IN  IF phone = <<>> THEN Ok(phone)
                ELSE IF ~(MatchesClass(phone_clean, Digits) /\ Len(phone_clean) \in 10..15)
                THEN Err("invalid_phone")
                ELSE Ok(Strip(phone))
        clean_website(website) ==
            IF website # <<>> THEN Err("spam") ELSE Ok(website)
        clean_message(message) ==
            LET m == Escape(Strip(message))
                l == Lower(m)
            IN  IF message = <<>> THEN Ok(message)
                ELSE IF Len(m) < 20 THEN Err("min_length")
                ELSE IF \/ Contains(l, <<"h", "t", "t", "p", ":", "/", "/">>)
                        \/ Contains(l, <<"h", "t", "t", "p", "s", ":", "/", "/">>)
                        \/ Contains(l, <<"w", "w", "w", ".">>)
                        \/ in_order(l, <<"c", "l", "i", "c", "k">>, <<"h", "e", "r", "e">>)
                        \/ in_order(l, <<"b", "u", "y">>, <<"n", "o", "w">>)
                        \/ in_order(l, <<"f", "r", "e", "e">>, <<"m", "o", "n", "e", "y">>)
                        \/ in_order(l, <<"g", "u", "a", "r", "a", "n", "t", "e", "e", "d">>,
                                       <<"i", "n", "c", "o", "m", "e">>)
                THEN Err("prohibited")
                ELSE Ok(m)
        subject_field == CharFieldClean(post.subject, TRUE, 200)
        name_field == CharFieldClean(post.name, TRUE, 100)
        email_field == IF Strip(post.email) = <<>> THEN Err("required")
                       ELSE EmailFieldClean(post.email)
        phone_field == CharFieldClean(post.phone, FALSE, 20)
        message_field == CharFieldClean(post.message, TRUE, 2000)
        website_field == CharFieldClean(post.website, FALSE, 2000)
    IN  FieldError("subject", Cleaned(subject_field, clean_subject(subject_field.value)))
        \cup FieldError("name", name_field)
        \cup FieldError("email", email_field)
        \cup FieldError("phone", Cleaned(phone_field, clean_phone(phone_field.value)))
        \cup FieldError("message", Cleaned(message_field, clean_message(message_field.value)))
        \cup FieldError("website", Cleaned(website_field, clean_website(website_field.value)))

(***************************************************************************)
(* The bookshelf views (advanced_features_and_security).                   *)
(***************************************************************************)
PadLen == 1         \* longest text a client puts before or after a phrase

ShelfBookFields == {"title", "author", "publication_year"}
CreateKwargs == {"title", "author", "publication_year", "isbn", "description"}
SearchValuesFields == {"title", "author", "publication_year", "isbn"}
SearchLimit == 50

\* Model.__init__ raises TypeError for a keyword that is no field of the model;
\* filter() and values() raise FieldError for a name that is no field.
UnknownFields(names) == names \ ShelfBookFields

\* The fields secure_book_search filters on for a search type.
SearchLookups(search_type) ==
    IF search_type = "title" THEN {"title"}
    ELSE IF search_type = "author" THEN {"author"}
    ELSE IF search_type = "isbn" THEN {"isbn"}
    ELSE {"title", "author", "description"}

\* <field>__icontains=query on one row.
IContains(row, field, query) ==
    IF field = "title" THEN Contains(Lower(row.title), Lower(query))
    ELSE IF field = "author" THEN Contains(Lower(row.author), Lower(query))
    ELSE FALSE

SearchMatches(table, search_type, query) ==
    {b.id : b \in {row \in table :
                     \E field \in SearchLookups(search_type) : IContains(row, field, query)}}

DropTableQuery == <<"'", ";", " ", "D", "R", "O", "P", " ", "T", "A", "B", "L", "E", " ", "x", ";", " ", "-", "-">>

CommentCores ==
    SpamIndicators \cup {Upper(i) : i \in SpamIndicators}
    \cup {Capitalize(i) : i \in SpamIndicators} \cup {<<"h", "e", "l", "l", "o">>, <<"w", "w", "w", "w", "w">>, <<"c", "l", "i", "c", "k", " ", "h", "e", "r">>, <<"h", "t", "t", "p", ":", "/">>}
CommentInputs == {<<>>} \cup {pre \o core \o post : pre \in Texts({" ", "a"}, PadLen), core \in CommentCores, post \in Texts({" ", "a"}, PadLen)}

BookPosts ==
    [form : {"SecureBookForm"}, csrf : BOOLEAN, honeypot : {<<>>, <<" ">>, <<"x">>},
     title : Texts({" ", "a", "&"}, MaxLen), author : {<<>>, <<"a", "b">>, <<"a", "1">>},
     publication_year : YearInputs \cup {0}, isbn : {<<>>, <<"1", "2">>},
     description : {<<>>, <<"a", "<">>}]

CommentPosts ==
    [form : {"SecureCommentForm"}, csrf : BOOLEAN, name : {<<"a">>, <<"a", "b">>},
     email : {<<>>, <<"a", "b">>}, comment : CommentInputs, rating : {"", "6"}]

SearchPosts ==
    [form : {"BookSearchForm"}, csrf : BOOLEAN, query : (Texts({"a", "'", " "}, MaxLen) \cup {DropTableQuery}),
     search_type : ({"all", "title", "author", "isbn"} \cup {"", "rating"})]

ShelfViews == {"secure_book_create", "secure_book_search", "secure_add_comment"}

ShelfRequest(view, method, post) ==
    [view |-> view, method |-> method, auth |-> FALSE, user |-> Anonymous, id |-> 0,
     data |-> NoData, post |-> post]

\* A client sends a request to one of the bookshelf views: a GET, or a POST
\* of the view's form.
SendShelf ==
    /\ project = "advanced_features_and_security"
    /\ Idle
    /\ resp = NoResponse
    /\ \/ \E view \in ShelfViews : req' = ShelfRequest(view, "GET", NoPost)
       \/ \E post \in BookPosts : req' = ShelfRequest("secure_book_create", "POST", post)
       \/ \E post \in SearchPosts : req' = ShelfRequest("secure_book_search", "POST", post)
       \/ \E post \in CommentPosts : req' = ShelfRequest("secure_add_comment", "POST", post)
    /\ UNCHANGED <<clockVars, shelfVars, resp, outsideShelf>>

\* The admin site's add form for Book: a row of the three model fields.
Admin_add_book ==
    /\ project = "advanced_features_and_security"
    /\ Cardinality(shelf) < MaxBooks
    /\ \E title \in {<<"a", "b">>, <<"a", "'">>} :
        shelf' = shelf \cup {[id |-> Cardinality(shelf) + 1, title |-> title,
                              author |-> <<"a", "b">>, publication_year |-> FirstYear]}
    /\ UNCHANGED <<clockVars, httpVars, search_count, outsideShelf>>

\* csrf_protect: a POST without a valid token is answered 403 before the view.
Csrf_rejected ==
    /\ req.view \in ShelfViews
    /\ req.method = "POST"
    /\ ~req.post.csrf
    /\ resp' = Reply(403, {}, 0, "CSRF verification failed.")
    /\ req' = NoRequest
    /\ UNCHANGED <<clockVars, shelfVars, outsideShelf>>

\* require_http_methods(["POST"]) on secure_book_search and secure_add_comment.
Method_not_allowed ==
    /\ req.view \in {"secure_book_search", "secure_add_comment"}
    /\ req.method = "GET"
    /\ resp' = Reply(405, {}, 0, "none")
    /\ req' = NoRequest
    /\ UNCHANGED <<clockVars, shelfVars, outsideShelf>>

secure_book_create ==
    /\ req.view = "secure_book_create"
    /\ req.method = "POST" => req.post.csrf
    /\ IF req.method = "GET"
       THEN resp' = Reply(200, {}, 0, "none") /\ UNCHANGED shelf
       ELSE IF req.post.honeypot # <<>>
       THEN resp' = Reply(400, {}, 0, "Invalid request") /\ UNCHANGED shelf
       ELSE LET form == SecureBookForm(req.post)
                errors == SecureBookForm_errors(req.post)
                row == [id |-> Cardinality(shelf) + 1, title |-> form.title.value,
                        author |-> form.author.value,
                        publication_year |-> form.publication_year.value]
            IN  IF errors # {}
                THEN resp' = Reply(200, errors, 0, "none") /\ UNCHANGED shelf
                ELSE IF UnknownFields(CreateKwargs) # {}
                THEN /\ resp' = Reply(200, {}, 0, "Error adding book. Please try again.")
                     /\ UNCHANGED shelf
                ELSE /\ shelf' = shelf \cup {row}
                     /\ resp' = Reply(302, {}, row.id, "Book added successfully!")
    /\ req' = NoRequest
    /\ UNCHANGED <<clockVars, search_count, outsideShelf>>

\* An exception that leaves the view is answered 500, and the session
\* middleware does not save the session of a 5xx response.
secure_book_search ==
    /\ req.view = "secure_book_search"
    /\ req.method = "POST"
    /\ req.post.csrf
    /\ LET session_searches == search_count
           form == BookSearchForm(req.post)
           errors == BookSearchForm_errors(req.post)
           query == form.query.value
           search_type == form.search_type.value
       IN  IF session_searches > SearchLimit
           THEN /\ resp' = Reply(429, {}, 0, "Too many searches. Please try again later.")
                /\ UNCHANGED search_count
           ELSE IF errors # {}
           THEN /\ resp' = Reply(400, errors, 0, "Invalid search query")
                /\ UNCHANGED search_count
           ELSE IF UnknownFields(SearchLookups(search_type) \cup SearchValuesFields) # {}
           THEN /\ resp' = Reply(500, {}, 0, "FieldError")
                /\ UNCHANGED search_count
           ELSE /\ resp' = [Reply(200, {}, 0, "none") EXCEPT
                               !.found = SearchMatches(shelf, search_type, query)]
                /\ search_count' = session_searches + 1
    /\ req' = NoRequest
    /\ UNCHANGED <<clockVars, shelf, outsideShelf>>

\* A worker that serves no search.
NoSearch == [pc |-> "idle", post |-> NoPost, session_searches |-> 0, status |-> 0]

\* A worker takes a search that passed csrf_protect and require_http_methods
\* and runs the view up to request.session.get("search_count", 0), which
\* loads the session from the store.
secure_book_search_load ==
    \E w \in 1..NumWorkers :
        /\ searches[w].pc = "idle"
        /\ \E post \in [form : {"BookSearchForm"}, csrf : {TRUE},
                         query : Texts({"a", "'"}, MaxLen), search_type : {"title", "all"}] :
            searches' = [searches EXCEPT ![w] =
                            [pc |-> "loaded", post |-> post,
                             session_searches |-> search_count, status |-> 0]]
        /\ UNCHANGED <<search_count, outsideSearches>>

\* A view that starts the count afresh when it refuses a search.
secure_book_search_answer_reset ==
    \E w \in 1..NumWorkers :
        /\ searches[w].pc = "loaded"
        /\ IF searches[w].session_searches > SearchLimit
           THEN /\ searches' = [searches EXCEPT ![w].pc = "answered", ![w].status = 429]
                /\ search_count' = 0
           ELSE /\ searches' = [searches EXCEPT ![w].pc = "answered", ![w].status = 400]
                /\ UNCHANGED search_count
        /\ UNCHANGED outsideSearches

\* A worker runs the rest of the view on the session it loaded; the session
\* middleware then saves the worker's session, unless the answer is a 5xx.
secure_book_search_answer ==
    \E w \in 1..NumWorkers :
        /\ searches[w].pc = "loaded"
        /\ LET session_searches == searches[w].session_searches
               form == BookSearchForm(searches[w].post)
               errors == BookSearchForm_errors(searches[w].post)
               search_type == form.search_type.value
               answer(status) == [searches EXCEPT ![w].pc = "answered", ![w].status = status]
           IN  IF session_searches > SearchLimit
               THEN searches' = answer(429) /\ UNCHANGED search_count
               ELSE IF errors # {}
               THEN searches' = answer(400) /\ UNCHANGED search_count
               ELSE IF UnknownFields(SearchLookups(search_type) \cup SearchValuesFields) # {}
               THEN searches' = answer(500) /\ UNCHANGED search_count
               ELSE /\ searches' = answer(200)
                    /\ search_count' = session_searches + 1
        /\ UNCHANGED outsideSearches

\* The client has read a worker's answer; the worker is free again.
Worker_done ==
    \E w \in 1..NumWorkers :
        /\ searches[w].pc = "answered"
        /\ searches' = [searches EXCEPT ![w] = NoSearch]
        /\ UNCHANGED <<search_count, outsideSearches>>

secure_add_comment ==
    /\ req.view = "secure_add_comment"
    /\ req.method = "POST"
    /\ req.post.csrf
    /\ LET errors == SecureCommentForm_errors(req.post)
       IN  IF errors = {}
           THEN resp' = Reply(302, {}, 0, "Thank you! Your comment has been added.")
           ELSE resp' = Reply(302, errors, 0, "Invalid comment. Please check your input.")
    /\ req' = NoRequest
    /\ UNCHANGED <<clockVars, shelfVars, outsideShelf>>

(***************************************************************************)
(* The api_project Book endpoint (BookViewSet).                            *)
(***************************************************************************)

\* api_project BookSerializer.validate_title
ApiBookSerializer_validate_title(value) ==
    IF value = <<>> \/ Len(Strip(value)) = 0 THEN Err("empty") ELSE Ok(value)

\* api_project BookSerializer.validate_publication_year
ApiBookSerializer_validate_publication_year(value, now) ==
    IF value > now THEN [error |-> "future", value |-> 0]
    ELSE [error |-> "ok", value |-> value]

\* serializers.CharField.run_validation of the title, then validate_title;
\* allow_blank follows the model field's blank option.
ApiTitleField(raw, allow_blank) ==
    LET v == Strip(raw)
    IN  IF v = <<>> /\ ~allow_blank THEN Err("blank")
        ELSE ApiBookSerializer_validate_title(v)

\* serializer.is_valid(): the names of the fields in error.
ApiBookSerializer_errors(post, allow_blank, now) ==
    FieldError("title", ApiTitleField(post.title, allow_blank))
    \cup FieldError("publication_year",
                    ApiBookSerializer_validate_publication_year(post.publication_year, now))

ApiPosts ==
    [form : {"BookSerializer"}, title : TitleInputs,
     author : {<<"a">>, <<"a", "b">>}, publication_year : YearInputs]

\* A request to api_project; pk is the text of the URL segment the router
\* hands to the detail routes, <<>> on the list routes.
ApiProjectRequest(view, method, auth, pk, post) ==
    [view |-> view, method |-> method, auth |-> auth, user |-> Anonymous,
     id |-> 0, data |-> NoData, post |-> post, pk |-> pk]

\* The requests a client sends to api_project: the list and create routes,
\* and the detail routes with a pk that is a stored id, an id nobody has, or
\* no number at all.
SendApiProject ==
    /\ project = "api_project"
    /\ Idle
    /\ resp = NoResponse
    /\ \E auth \in BOOLEAN :
        \/ \E view \in {"BookList", "BookViewSet"} :
              req' = ApiProjectRequest(view, "GET", auth, <<>>, NoPost)
        \/ \E post \in ApiPosts :
              /\ api_next_id <= MaxBooks
              /\ req' = ApiProjectRequest("BookViewSet", "POST", auth, <<>>, post)
        \/ \E pk \in {<<"1">>, <<"9">>, <<"x">>} :
              \/ \E method \in {"GET", "DELETE"} :
                    req' = ApiProjectRequest("BookViewSet", method, auth, pk, NoPost)
              \/ \E method \in {"PUT", "PATCH"}, post \in ApiPosts :
                    req' = ApiProjectRequest("BookViewSet", method, auth, pk, post)
    /\ UNCHANGED <<clockVars, projectVars, resp, outsideProject>>

\* The project's default permission classes may refuse an anonymous client.
BookViewSet_permission_denied ==
    /\ req.view \in {"BookList", "BookViewSet"}
    /\ ~req.auth
    /\ \E status \in {401, 403} : resp' = Reply(status, {"not_authenticated"}, 0, "none")
    /\ req' = NoRequest
    /\ UNCHANGED <<clockVars, projectVars, outsideProject>>

\* BookViewSet.create (POST /books_all/).
BookViewSet_create ==
    /\ req.view = "BookViewSet" /\ req.method = "POST"
    /\ \E allow_blank \in BOOLEAN :
        LET errors == ApiBookSerializer_errors(req.post, allow_blank, current_year)
            row == [id |-> api_next_id, title |-> Strip(req.post.title),
                    author |-> req.post.author,
                    publication_year |-> req.post.publication_year]
        IN  IF errors = {}
            THEN /\ api_books' = api_books \cup {row}
                 /\ api_next_id' = api_next_id + 1
                 /\ resp' = Reply(201, {}, row.id, "Book created successfully")
            ELSE /\ resp' = Reply(400, errors, 0, "Validation failed")
                 /\ UNCHANGED projectVars
    /\ req' = NoRequest
    /\ UNCHANGED <<clockVars, outsideProject>>

\* IntegerField.to_python of the pk: the number the text writes, or -1 for
\* the ValueError of a text that writes none.
PkNumber(pk) ==
    IF Len(pk) = 1 /\ pk[1] \in Digits
    THEN CHOOSE n \in 0..9 : <<"0", "1", "2", "3", "4", "5", "6", "7", "8", "9">>[n + 1] = pk[1]
    ELSE -1

\* self.get_object(): rest_framework's get_object_or_404 on the queryset.
\* A pk no Book has raises Http404 with django's message; a pk that is no
\* number raises ValueError in the filter, which rest_framework replaces by
\* an Http404 without a message.  Book.DoesNotExist never leaves it.
GetObject(pk, table) ==
    LET n == PkNumber(pk)
    IN  IF n = -1 THEN [raised |-> "Http404", text |-> "", id |-> 0]
        ELSE IF \E b \in table : b.id = n
        THEN [raised |-> "none", text |-> "", id |-> n]
        ELSE [raised |-> "Http404", text |-> "No Book matches the given query.", id |-> 0]

\* except Book.DoesNotExist / except Exception as e around a handler's body:
\* the answer to an exception of class raised with str(e) = text.
ExceptResponse(raised, text, message) ==
    IF raised = "Book.DoesNotExist"
    THEN Reply(404, {}, 0, "Book not found")
    ELSE Reply(500, {text}, 0, message)

\* BookList.get (GET /books/).
BookList_get ==
    /\ req.view = "BookList" /\ req.method = "GET"
    /\ resp' = [Reply(200, {}, 0, "none") EXCEPT !.found = {b.id : b \in api_books}]
    /\ req' = NoRequest
    /\ UNCHANGED <<clockVars, projectVars, outsideProject>>

\* BookViewSet.list (GET /books_all/).
BookViewSet_list ==
    /\ req.view = "BookViewSet" /\ req.method = "GET" /\ req.pk = <<>>
    /\ resp' = [Reply(200, {}, 0, "none") EXCEPT !.found = {b.id : b \in api_books}]
    /\ req' = NoRequest
    /\ UNCHANGED <<clockVars, projectVars, outsideProject>>

\* BookViewSet.retrieve (GET /books_all/<pk>/).
BookViewSet_retrieve ==
    /\ req.view = "BookViewSet" /\ req.method = "GET" /\ req.pk # <<>>
    /\ LET instance == GetObject(req.pk, api_books)
       IN  IF instance.raised # "none"
           THEN resp' = ExceptResponse(instance.raised, instance.text,
                                       "Failed to retrieve book")
           ELSE resp' = [Reply(200, {}, instance.id, "none") EXCEPT !.found = {instance.id}]
    /\ req' = NoRequest
    /\ UNCHANGED <<clockVars, projectVars, outsideProject>>

\* The body shared by BookViewSet.update and BookViewSet.partial_update:
\* get_object, is_valid, perform_update, inside the handler's try.
UpdateBook(done, failed) ==
    LET instance == GetObject(req.pk, api_books)
    IN  IF instance.raised # "none"
        THEN /\ resp' = ExceptResponse(instance.raised, instance.text, failed)
             /\ UNCHANGED projectVars
        ELSE \E allow_blank \in BOOLEAN :
               LET errors == ApiBookSerializer_errors(req.post, allow_blank, current_year)
                   row == [id |-> instance.id, title |-> Strip(req.post.title),
                           author |-> req.post.author,
                           publication_year |-> req.post.publication_year]
               IN  IF errors = {}
                   THEN /\ api_books' = {b \in api_books : b.id # instance.id} \cup {row}
                        /\ UNCHANGED api_next_id
                        /\ resp' = Reply(200, {}, instance.id, done)
                   ELSE /\ resp' = Reply(400, errors, 0, "Validation failed")
                        /\ UNCHANGED projectVars

\* BookViewSet.update (PUT /books_all/<pk>/).
BookViewSet_update ==
    /\ req.view = "BookViewSet" /\ req.method = "PUT"
    /\ UpdateBook("Book updated successfully", "Failed to update book")
    /\ req' = NoRequest
    /\ UNCHANGED <<clockVars, outsideProject>>

\* BookViewSet.partial_update (PATCH /books_all/<pk>/).
BookViewSet_partial_update ==
    /\ req.view = "BookViewSet" /\ req.method = "PATCH"
    /\ UpdateBook("Book partially updated successfully", "Failed to partially update book")
    /\ req' = NoRequest
    /\ UNCHANGED <<clockVars, outsideProject>>

\* BookViewSet.destroy (DELETE /books_all/<pk>/); the message is written
\* without the title it quotes.
BookViewSet_destroy ==
    /\ req.view = "BookViewSet" /\ req.method = "DELETE"
    /\ LET instance == GetObject(req.pk, api_books)
       IN  IF instance.raised # "none"
           THEN /\ resp' = ExceptResponse(instance.raised, instance.text,
                                          "Failed to delete book")
                /\ UNCHANGED projectVars
           ELSE /\ api_books' = {b \in api_books : b.id # instance.id}
                /\ UNCHANGED api_next_id
                /\ resp' = Reply(204, {}, instance.id, "deleted successfully")
    /\ req' = NoRequest
    /\ UNCHANGED <<clockVars, outsideProject>>

(***************************************************************************)
(* relationship_app: users, profiles, roles and the guarded views.         *)
(***************************************************************************)
UserIds == 1..NumUsers
USER_ROLES == {"Admin", "Librarian", "Member"}
BookPermissions == {"can_add_book", "can_change_book", "can_delete_book"}
LibraryBookIds == {1, 2}

\* A User row that does not exist yet.  role is the role of the user's
\* UserProfile, "none" when the user has no UserProfile row; perms are the
\* permissions granted to the user or to the user's groups.
NoAccount == [exists |-> FALSE, role |-> "none", perms |-> {}, is_superuser |-> FALSE]

\* hasattr(user, "userprofile"): False when the profile row is missing.
HasUserProfile(user) == accounts[user].role # "none"

\* is_admin with the profile read without the hasattr test.
is_admin_unguarded(user) ==
    IF user = Anonymous THEN "False"
    ELSE IF ~HasUserProfile(user) THEN "RelatedObjectDoesNotExist"
    ELSE IF accounts[user].role = "Admin" THEN "True"
    ELSE "False"

is_admin(user) ==
    IF user # Anonymous /\ HasUserProfile(user) /\ accounts[user].role = "Admin"
    THEN "True" ELSE "False"

is_librarian(user) ==
    IF user # Anonymous /\ HasUserProfile(user) /\ accounts[user].role = "Librarian"
    THEN "True" ELSE "False"

is_member(user) ==
    IF user # Anonymous /\ HasUserProfile(user) /\ accounts[user].role = "Member"
    THEN "True" ELSE "False"

\* user.has_perm("relationship_app.<perm>") of ModelBackend.
HasPerm(user, perm) ==
    /\ user # Anonymous
    /\ accounts[user].is_superuser \/ perm \in accounts[user].perms

RoleViews == {"admin_view", "librarian_view", "member_view"}
BookViews == {"add_book_view", "edit_book_view", "delete_book_view"}

\* The test user_passes_test runs for a role view.
RoleTest(view, user) ==
    IF view = "admin_view" THEN is_admin(user)
    ELSE IF view = "librarian_view" THEN is_librarian(user)
    ELSE is_member(user)

RolesRequests ==
    {[view |-> view, method |-> method, auth |-> user # Anonymous, user |-> user,
      id |-> pk, data |-> NoData, post |-> NoPost] :
        view \in RoleViews \cup BookViews, method \in {"GET", "POST"},
        user \in UserIds \cup {Anonymous}, pk \in LibraryBookIds \cup {0}}

\* A browser sends a request with the session of a registered user, or
\* with none.
SendRoles ==
    /\ project = "django-models"
    /\ Idle
    /\ resp = NoResponse
    /\ \E r \in RolesRequests :
        /\ r.user # Anonymous => accounts[r.user].exists
        /\ (r.view \in {"edit_book_view", "delete_book_view"}) = (r.id # 0)
        /\ r.method = "POST" => r.view = "delete_book_view"
        /\ req' = r
    /\ UNCHANGED <<clockVars, resp, accounts, library_books, outsideRoles>>

\* register_view with a valid form: the user is saved, and the post_save
\* receiver create_user_profile gives it a Member profile.
register_view ==
    /\ project = "django-models"
    /\ \E u \in UserIds :
        /\ ~accounts[u].exists
        /\ accounts' = [accounts EXCEPT ![u] = [exists |-> TRUE, role |-> "Member",
                                                perms |-> {}, is_superuser |-> FALSE]]
    /\ UNCHANGED <<clockVars, httpVars, library_books, outsideRoles>>

\* createsuperuser: the same receivers run, and is_superuser is set.
Create_superuser ==
    /\ project = "django-models"
    /\ \E u \in UserIds :
        /\ ~accounts[u].exists
        /\ accounts' = [accounts EXCEPT ![u] = [exists |-> TRUE, role |-> "Member",
                                                perms |-> {}, is_superuser |-> TRUE]]
    /\ UNCHANGED <<clockVars, httpVars, library_books, outsideRoles>>

\* The role of a UserProfile is edited (one of USER_ROLES).
Set_role ==
    /\ project = "django-models"
    /\ \E u \in UserIds, role \in USER_ROLES :
        /\ accounts[u].exists
        /\ HasUserProfile(u)
        /\ accounts' = [accounts EXCEPT ![u].role = role]
    /\ UNCHANGED <<clockVars, httpVars, library_books, outsideRoles>>

\* A UserProfile row is deleted; its User row stays.
Delete_profile ==
    /\ project = "django-models"
    /\ \E u \in UserIds :
        /\ accounts[u].exists
        /\ HasUserProfile(u)
        /\ accounts' = [accounts EXCEPT ![u].role = "none"]
    /\ UNCHANGED <<clockVars, httpVars, library_books, outsideRoles>>

\* One of Book.Meta.permissions is granted to a user, or taken back.
Set_permission ==
    /\ project = "django-models"
    /\ \E u \in UserIds, perm \in BookPermissions :
        /\ accounts[u].exists
        /\ accounts' = [accounts EXCEPT ![u].perms =
                          IF perm \in @ THEN @ \ {perm} ELSE @ \cup {perm}]
    /\ UNCHANGED <<clockVars, httpVars, library_books, outsideRoles>>

\* A Book row is added to the library.
Add_library_book ==
    /\ project = "django-models"
    /\ \E pk \in LibraryBookIds :
        /\ pk \notin library_books
        /\ library_books' = library_books \cup {pk}
    /\ UNCHANGED <<clockVars, httpVars, accounts, outsideRoles>>

\* admin_view, librarian_view and member_view: user_passes_test redirects to
\* the login page unless the role test passes; an exception in the test is
\* answered 500.
Role_view ==
    /\ req.view \in RoleViews
    /\ LET test == RoleTest(req.view, req.user)
       IN  IF test = "True" THEN resp' = Reply(200, {}, 0, "none")
           ELSE IF test = "False" THEN resp' = Reply(302, {"login"}, 0, "none")
           ELSE resp' = Reply(500, {}, 0, test)
    /\ req' = NoRequest
    /\ UNCHANGED <<clockVars, accounts, library_books, outsideRoles>>

add_book_view ==
    /\ req.view = "add_book_view"
    /\ IF HasPerm(req.user, "can_add_book")
       THEN resp' = Reply(200, {}, 0, "none")
       ELSE resp' = Reply(302, {"login"}, 0, "none")
    /\ req' = NoRequest
    /\ UNCHANGED <<clockVars, accounts, library_books, outsideRoles>>

edit_book_view ==
    /\ req.view = "edit_book_view"
    /\ IF ~HasPerm(req.user, "can_change_book")
       THEN resp' = Reply(302, {"login"}, req.id, "none")
       ELSE IF req.id \notin library_books
       THEN resp' = Reply(404, {}, req.id, "none")
       ELSE resp' = Reply(200, {}, req.id, "none")
    /\ req' = NoRequest
    /\ UNCHANGED <<clockVars, accounts, library_books, outsideRoles>>

\* delete_book_view that deletes whatever the request method is.
delete_book_view_any_method ==
    /\ req.view = "delete_book_view"
    /\ IF ~HasPerm(req.user, "can_delete_book")
       THEN resp' = Reply(302, {"login"}, req.id, "none") /\ UNCHANGED library_books
       ELSE IF req.id \notin library_books
       THEN resp' = Reply(404, {}, req.id, "none") /\ UNCHANGED library_books
       ELSE /\ library_books' = library_books \ {req.id}
            /\ resp' = Reply(302, {}, req.id, "Book deleted successfully.")
    /\ req' = NoRequest
    /\ UNCHANGED <<clockVars, accounts, outsideRoles>>

\* delete_book_view behind permission_required and login_required: the book
\* is fetched (404 when absent), deleted on POST, shown for confirmation
\* otherwise.
delete_book_view ==
    /\ req.view = "delete_book_view"
    /\ IF ~HasPerm(req.user, "can_delete_book")
       THEN resp' = Reply(302, {"login"}, req.id, "none") /\ UNCHANGED library_books
       ELSE IF req.id \notin library_books
       THEN resp' = Reply(404, {}, req.id, "none") /\ UNCHANGED library_books
       ELSE IF req.method = "POST"
       THEN /\ library_books' = library_books \ {req.id}
            /\ resp' = Reply(302, {}, req.id, "Book deleted successfully.")
       ELSE resp' = Reply(200, {}, req.id, "none") /\ UNCHANGED library_books
    /\ req' = NoRequest
    /\ UNCHANGED <<clockVars, accounts, outsideRoles>>

\* A registered user posts its credentials to the login page; req.user is
\* the user the credentials belong to.
SendLogin ==
    /\ project = "django-models"
    /\ Idle
    /\ resp = NoResponse
    /\ \E u \in UserIds :
        /\ accounts[u].exists
        /\ req' = [NoRequest EXCEPT !.view = "LoginView", !.method = "POST", !.user = u]
    /\ UNCHANGED <<clockVars, resp, accounts, library_books, outsideRoles>>

\* LoginView with valid credentials: login() records last_login with
\* user.save(), whose post_save receivers run: create_user_profile does
\* nothing (created is False) and save_user_profile reads
\* instance.userprofile, which raises when the user has no UserProfile row.
LoginView ==
    /\ req.view = "LoginView"
    /\ IF HasUserProfile(req.user)
       THEN resp' = Reply(302, {}, 0, "none")
       ELSE resp' = Reply(500, {}, 0, "RelatedObjectDoesNotExist")
    /\ req' = NoRequest
    /\ UNCHANGED <<clockVars, accounts, library_books, outsideRoles>>

(***************************************************************************)
(* relationship_app: the User rows, their UserProfile rows and the         *)
(* post_save receivers, with the User instances the workers hold.          *)
(***************************************************************************)
NoProfile == [id |-> 0, user |-> 0, role |-> "none"]

\* A worker that holds no User instance.  userprofile is the UserProfile
\* cached on the instance, NoProfile while instance.userprofile was never
\* read or set.
NoUser == [pk |-> 0, userprofile |-> NoProfile]

\* A receiver that creates no profile.
create_user_profile_never(pk, created, seq) ==
    NoProfile

\* create_user_profile: the row UserProfile.objects.create(user=instance)
\* inserts, NoProfile when nothing is created.
create_user_profile(pk, created, seq) ==
    IF created THEN [id |-> seq, user |-> pk, role |-> "Member"] ELSE NoProfile

\* UserProfile.save() of obj: an UPDATE of the row with obj's primary key, or
\* an INSERT when no such row is left.  The table keeps one row for a user
\* (OneToOneField) and no row of a user that is gone (the foreign key).
ProfileSave(obj, table, user_table) ==
    IF obj = NoProfile
    THEN [raised |-> "RelatedObjectDoesNotExist", table |-> table]
    ELSE IF obj.user \notin user_table
            \/ \E p \in table : p.id # obj.id /\ p.user = obj.user
    THEN [raised |-> "IntegrityError", table |-> table]
    ELSE [raised |-> "none", table |-> {p \in table : p.id # obj.id} \cup {obj}]

\* instance.userprofile: the cached object, or the row the database holds
\* for the user (NoProfile when there is none).
UserProfileOf(instance, table) ==
    IF instance.userprofile # NoProfile THEN instance.userprofile
    ELSE IF \E p \in table : p.user = instance.pk
    THEN CHOOSE p \in table : p.user = instance.pk
    ELSE NoProfile

\* save_user_profile: instance.userprofile.save().
save_user_profile(instance, table, user_table) ==
    ProfileSave(UserProfileOf(instance, table), table, user_table)

\* User.save() of the instance worker w holds, as part of operation op:
\* the row is updated, or inserted when no row has its primary key; then
\* the post_save receivers run in the order they were connected.
SaveUser(w, instance, op) ==
    LET created == instance.pk \notin users
        new == create_user_profile(instance.pk, created, profile_seq)
        user_table == users \cup {instance.pk}
        inserted == IF new = NoProfile THEN profiles ELSE profiles \cup {new}
        held == IF new = NoProfile THEN instance ELSE [instance EXCEPT !.userprofile = new]
        saved == save_user_profile(held, inserted, user_table)
    IN  /\ created => profile_seq <= MaxProfiles
        /\ users' = user_table
        /\ profiles' = saved.table
        /\ profile_seq' = IF new = NoProfile THEN profile_seq ELSE profile_seq + 1
        /\ copies' = [copies EXCEPT ![w] =
                         [pk |-> instance.pk, userprofile |-> UserProfileOf(held, inserted)]]
        /\ did' = [op |-> op, raised |-> saved.raised]

\* User.objects.create_user(...): a new instance is saved.
User_create ==
    /\ project = "django-models"
    /\ \E w \in 1..NumWorkers :
        /\ user_seq <= MaxAccounts
        /\ SaveUser(w, [NoUser EXCEPT !.pk = user_seq], "create")
        /\ user_seq' = user_seq + 1
    /\ UNCHANGED outsideProfiles

\* A request loads a User from the database (request.user, User.objects.get).
User_get ==
    /\ project = "django-models"
    /\ \E w \in 1..NumWorkers, pk \in users :
        copies' = [copies EXCEPT ![w] = [NoUser EXCEPT !.pk = pk]]
    /\ did' = [op |-> "get", raised |-> "none"]
    /\ UNCHANGED <<users, profiles, user_seq, profile_seq, outsideProfiles>>

\* user.userprofile.role is read, as the role tests do: the profile is
\* fetched once and kept on the instance.
User_userprofile ==
    /\ project = "django-models"
    /\ \E w \in 1..NumWorkers :
        /\ copies[w].pk # 0
        /\ LET obj == UserProfileOf(copies[w], profiles)
           IN  /\ copies' = [copies EXCEPT ![w].userprofile = obj]
               /\ did' = [op |-> "userprofile",
                          raised |-> IF obj = NoProfile
                                     THEN "RelatedObjectDoesNotExist" ELSE "none"]
    /\ UNCHANGED <<users, profiles, user_seq, profile_seq, outsideProfiles>>

\* user.save() on the instance a worker holds.
User_save ==
    /\ project = "django-models"
    /\ \E w \in 1..NumWorkers :
        /\ copies[w].pk # 0
        /\ SaveUser(w, copies[w], "save")
    /\ UNCHANGED <<user_seq, outsideProfiles>>

\* The explicit role assignment: user.userprofile.role = role, then
\* user.userprofile.save().
Assign_role ==
    /\ project = "django-models"
    /\ \E w \in 1..NumWorkers, role \in USER_ROLES :
        /\ copies[w].pk # 0
        /\ LET obj == UserProfileOf(copies[w], profiles)
               changed == IF obj = NoProfile THEN obj ELSE [obj EXCEPT !.role = role]
               saved == ProfileSave(changed, profiles, users)
           IN  /\ profiles' = saved.table
               /\ copies' = [copies EXCEPT ![w].userprofile = changed]
               /\ did' = [op |-> "assign", raised |-> saved.raised]
    /\ UNCHANGED <<users, user_seq, profile_seq, outsideProfiles>>

\* user.delete(): the row goes, its UserProfile with it (on_delete=CASCADE),
\* and the instance loses its primary key.
User_delete ==
    /\ project = "django-models"
    /\ \E w \in 1..NumWorkers :
        /\ copies[w].pk \in users
        /\ users' = users \ {copies[w].pk}
        /\ profiles' = {p \in profiles : p.user # copies[w].pk}
        /\ copies' = [copies EXCEPT ![w] = NoUser]
    /\ did' = [op |-> "delete", raised |-> "none"]
    /\ UNCHANGED <<user_seq, profile_seq, outsideProfiles>>

(***************************************************************************)
(* Validators and cleaners called on their own, as a test or a shell       *)
(* session calls them.                                                     *)
(***************************************************************************)
CleanInputs == Texts({" ", "a", "&", "<", ">", "\"", "'"}, MaxLen)

NoCall == [fn |-> "none", text |-> <<>>, year |-> 0, now |-> 0, pass |-> 0,
           error |-> "none", value |-> <<>>, number |-> 0]

Cleaner(fn, text) ==
    IF fn = "clean_title" THEN SecureBookForm_clean_title(text)
    ELSE SecureBookForm_clean_description(text)

Call_validate_publication_year ==
    /\ call = NoCall
    /\ \E y \in YearInputs :
        LET r == ValidatePublicationYear(y, current_year)
        IN  call' = [fn |-> "validate_publication_year", text |-> <<>>, year |-> y,
                     now |-> current_year, pass |-> 1, error |-> r.error,
                     value |-> <<>>, number |-> r.value]
    /\ UNCHANGED <<clockVars, outsideCall>>

Call_publication_year_field ==
    /\ call = NoCall
    /\ \E y \in YearInputs \cup {0} :
        LET r == SecureBookForm_publication_year(y)
        IN  call' = [fn |-> "SecureBookForm.publication_year", text |-> <<>>,
                     year |-> y, now |-> current_year, pass |-> 1,
                     error |-> r.error, value |-> <<>>, number |-> r.value]
    /\ UNCHANGED <<clockVars, outsideCall>>

Call_cleaner ==
    /\ call = NoCall
    /\ \E fn \in {"clean_title", "clean_description"}, v \in CleanInputs :
        LET r == Cleaner(fn, v)
        IN  call' = [fn |-> fn, text |-> v, year |-> 0, now |-> current_year,
                     pass |-> 1, error |-> r.error, value |-> r.value, number |-> 0]
    /\ UNCHANGED <<clockVars, outsideCall>>

\* One field of a bound form is cleaned: the CharField's own clean (strip,
\* required, max_length), then the form's clean_<field> on its result.
Call_field_cleaner ==
    /\ call = NoCall
    /\ \E fn \in {"ExampleForm.clean_name", "SecureCommentForm.clean_name",
                   "SecureBookForm.clean_author", "BookSearchForm.clean_query"},
          raw \in Texts({" ", "a", "!", "&"}, MaxLen)
                  \cup {[i \in 1..n |-> "a"] \o tail : n \in {100, 200}, tail \in {<<>>, <<"a">>, <<"!">>}}
                  \cup {<<"O", "'", "B">>, <<"a", "\"", "b">>} :
        LET max_length == IF fn = "BookSearchForm.clean_query" THEN 200 ELSE 100
            field == CharFieldClean(raw, TRUE, max_length)
            r == Cleaned(field,
                         IF fn = "ExampleForm.clean_name"
                         THEN ExampleForm_clean_name(field.value)
                         ELSE IF fn = "SecureCommentForm.clean_name"
                         THEN SecureCommentForm_clean_name(field.value)
                         ELSE IF fn = "SecureBookForm.clean_author"
                         THEN SecureBookForm_clean_author(field.value)
                         ELSE BookSearchForm_clean_query(field.value))
        IN  call' = [fn |-> fn, text |-> raw, year |-> 0, now |-> current_year,
                     pass |-> 1, error |-> r.error, value |-> r.value,
                     number |-> max_length]
    /\ UNCHANGED <<clockVars, outsideCall>>

\* SecureContactForm(data).is_valid() on a submission.
Call_contact_form ==
    /\ call = NoCall
    /\ \E post \in [subject : {<<"a">>, <<"a", "b", "c">>}, name : {<<"a">>},
                     email : {<<"a">>, <<"a", "@", "b">>}, phone : {<<>>, <<"1">>},
                     message : {<<"a">>, [i \in 1..20 |-> "a"],
                                <<"w", "w", "w", ".">> \o [i \in 1..20 |-> "a"]},
                     website : {<<>>, <<" ">>, <<"x">>, <<" ", "x">>}] :
        LET errors == SecureContactForm_errors(post)
        IN  call' = [fn |-> "SecureContactForm", text |-> post.website, year |-> 0,
                     now |-> current_year, pass |-> 1,
                     error |-> IF errors = {} THEN "ok" ELSE "invalid",
                     value |-> <<>>, number |-> 0, post |-> post, errors |-> errors]
    /\ UNCHANGED <<clockVars, outsideCall>>

\* The cleaned value is submitted again and cleaned again.
Call_cleaner_again ==
    /\ call.fn \in {"clean_title", "clean_description"}
    /\ call.error = "ok"
    /\ call.pass < MaxPasses
    /\ LET r == Cleaner(call.fn, call.value)
       IN  call' = [call EXCEPT !.text = call.value, !.now = current_year,
                                !.pass = call.pass + 1, !.error = r.error,
                                !.value = r.value]
    /\ UNCHANGED <<clockVars, outsideCall>>

(***************************************************************************)
(* The management command setup_groups of the bookshelf app.               *)
(***************************************************************************)
\* The classes bookshelf/models.py defines.
BookshelfModels == {"CustomUserManager", "CustomUser", "Book"}

\* The Group tables a deployment can hold before the command runs: each
\* group absent, or present with grants an administrator gave it.
GroupTables ==
    LET rowsOf(name) == {{}} \cup {{[name |-> name, permissions |-> perms]} :
                                     perms \in SUBSET {"can_view", "can_delete"}}
    IN  {a \cup b \cup c : a \in rowsOf("Viewers"), b \in rowsOf("Editors"),
                            c \in rowsOf("Admins")}

\* Command.handle: the three groups are fetched or created, then each has
\* its permissions cleared and the listed ones added.
Command_handle(table) ==
    LET grants == [Viewers |-> {"can_view"},
                   Editors |-> {"can_view", "can_create", "can_edit",
                                "can_add_book", "can_remove_book"},
                   Admins |-> {"can_view", "can_create", "can_edit", "can_delete",
                               "can_add_book", "can_remove_book"}]
    IN  {g \in table : g.name \notin DOMAIN grants}
            \cup {[name |-> name, permissions |-> grants[name]] : name \in DOMAIN grants}

\* manage.py setup_groups: the command module is imported, with its line
\* "from bookshelf.models import Book, Library", and then handle runs.
setup_groups ==
    /\ project = "advanced_features_and_security"
    /\ IF {"Book", "Library"} \subseteq BookshelfModels
       THEN /\ groups' = Command_handle(groups)
            /\ call' = [NoCall EXCEPT !.fn = "setup_groups"]
       ELSE /\ UNCHANGED groups
            /\ call' = [NoCall EXCEPT !.fn = "setup_groups", !.error = "ImportError"]
    /\ UNCHANGED outsideGroups

\* The state of a deployment of project p whose Book table holds the rows
\* of table, numbered from 1, whose Group table holds group_table, and where
\* the session of the client holds stored_count under "search_count".
InitStore(p, table, group_table, stored_count) ==
    /\ project = p
    /\ current_year = FirstYear
    /\ import_year = FirstYear
    /\ books = table
    /\ next_id = Cardinality(table) + 1
    /\ req = NoRequest
    /\ resp = NoResponse
    /\ call = NoCall
    /\ shelf = {}
    /\ search_count = stored_count
    /\ api_books = {}
    /\ api_next_id = 1
    /\ accounts = [u \in UserIds |-> NoAccount]
    /\ library_books = {}
    /\ searches = [w \in 1..NumWorkers |-> NoSearch]
    /\ users = {}
    /\ profiles = {}
    /\ user_seq = 1
    /\ profile_seq = 1
    /\ copies = [w \in 1..NumWorkers |-> NoUser]
    /\ did = [op |-> "none", raised |-> "none"]
    /\ groups = group_table

\* The state of a freshly migrated deployment of project p.
InitOf(p) == InitStore(p, {}, {}, 0)

\* The Book tables load_sample_data leaves: rows with distinct (title,
\* author, publication_year), numbered in the order they were created.
Catalogues ==
    LET rows == [title : {<<"a", "b">>, <<"B", "a">>, <<"a", "a">>},
                 author : AuthorIds,
                 publication_year : {FirstYear - 1, FirstYear}]
    IN  UNION {{{[id |-> i, title |-> f[i].title, author |-> f[i].author,
                  publication_year |-> f[i].publication_year] : i \in 1..n} :
                 f \in {g \in [1..n -> rows] :
                          \A i, j \in 1..n : i # j => g[i] # g[j]}} :
               n \in 0..MaxBooks}

\* The caller has read the result; the next call starts afresh.
Return ==
    /\ call # NoCall
    /\ call' = NoCall
    /\ UNCHANGED <<clockVars, outsideCall>>

NextApi ==
    \/ Tick
    \/ Restart
    \/ Deliver
    \/ SendApi
    \/ Api_permission_denied
    \/ BookListView_list
    \/ BookDetailView_retrieve
    \/ BookListView_create
    \/ BookDetailView_update
    \/ BookDetailView_destroy

SpecApi == InitOf("advanced-api-project") /\ [][NextApi]_vars

NextList ==
    \/ Deliver
    \/ SendApiList
    \/ BookListView_list

SpecList ==
    /\ \E table \in Catalogues : InitStore("advanced-api-project", table, {}, 0)
    /\ [][NextList]_vars

NextGroups ==
    \/ setup_groups
    \/ Return

SpecGroups ==
    /\ \E group_table \in GroupTables :
          InitStore("advanced_features_and_security", {}, group_table, 0)
    /\ [][NextGroups]_vars

NextCall ==
    \/ Tick
    \/ Call_validate_publication_year
    \/ Call_publication_year_field
    \/ Call_cleaner
    \/ Call_cleaner_again
    \/ Call_contact_form
    \/ Call_field_cleaner
    \/ Return

SpecCall == InitOf("shell") /\ [][NextCall]_vars

NextShelf ==
    \/ Deliver
    \/ SendShelf
    \/ Admin_add_book
    \/ Csrf_rejected
    \/ Method_not_allowed
    \/ secure_book_create
    \/ secure_book_search
    \/ secure_add_comment

SpecShelf == InitOf("advanced_features_and_security") /\ [][NextShelf]_vars

NextRoles ==
    \/ Deliver
    \/ SendRoles
    \/ SendLogin
    \/ LoginView
    \/ register_view
    \/ Create_superuser
    \/ Set_role
    \/ Delete_profile
    \/ Set_permission
    \/ Add_library_book
    \/ Role_view
    \/ add_book_view
    \/ edit_book_view
    \/ delete_book_view

SpecRoles == InitOf("django-models") /\ [][NextRoles]_vars

\* The searches of one session, served by workers that run side by side.
NextSearches ==
    \/ secure_book_search_load
    \/ secure_book_search_answer
    \/ Worker_done

SpecSearches == InitOf("advanced_features_and_security") /\ [][NextSearches]_vars

\* The searches of a session whose stored search_count is any value around
\* the limit: request.session is what the view is handed with the request.
SpecThrottle ==
    /\ \E stored_count \in {0, SearchLimit, SearchLimit + 1} :
          InitStore("advanced_features_and_security", {}, {}, stored_count)
    /\ [][NextSearches]_vars

\* Workers that create, load, save and delete users and assign roles.
NextProfiles ==
    \/ User_create
    \/ User_get
    \/ User_userprofile
    \/ User_save
    \/ Assign_role
    \/ User_delete

SpecProfiles == InitOf("django-models") /\ [][NextProfiles]_vars

NextProject ==
    \/ Tick
    \/ Deliver
    \/ SendApiProject
    \/ BookViewSet_permission_denied
    \/ BookList_get
    \/ BookViewSet_list
    \/ BookViewSet_create
    \/ BookViewSet_retrieve
    \/ BookViewSet_update
    \/ BookViewSet_partial_update
    \/ BookViewSet_destroy

SpecProject == InitOf("api_project") /\ [][NextProject]_vars


\* Any one of the three projects that store books, serving its requests.
NextBooks ==
    \/ Tick
    \/ Restart
    \/ Deliver
    \/ SendApi
    \/ Api_permission_denied
    \/ BookListView_list
    \/ BookDetailView_retrieve
    \/ BookListView_create
    \/ BookDetailView_update
    \/ BookDetailView_destroy
    \/ SendShelf
    \/ Admin_add_book
    \/ Csrf_rejected
    \/ Method_not_allowed
    \/ secure_book_create
    \/ secure_book_search
    \/ secure_add_comment
    \/ SendApiProject
    \/ BookViewSet_permission_denied
    \/ BookList_get
    \/ BookViewSet_list
    \/ BookViewSet_create
    \/ BookViewSet_retrieve
    \/ BookViewSet_update
    \/ BookViewSet_partial_update
    \/ BookViewSet_destroy

SpecBooks == (\E p \in {"advanced-api-project", "advanced_features_and_security", "api_project"} : InitOf(p)) /\ [][NextBooks]_vars

(***************************************************************************)
(* Properties of the advanced-api Book endpoints.                          *)
(***************************************************************************)
Triples(table) == {Triple(b) : b \in table}

\* The request is a create that the permission check lets through.
CreateInHand == req.view = "BookListView" /\ req.method = "POST" /\ req.auth

\* The body passes every check that does not look at the stored books.
ValidBody(d) ==
    SerializerErrors(d, NoInstance, FALSE, {}, current_year, import_year) = {}

BodyTriple(d) == <<Strip(d.title), d.author, d.publication_year>>

NoTwoBooksShareATriple ==
    \A a, b \in books : Triple(a) = Triple(b) => a = b

CreateStoresOnce ==
    (CreateInHand /\ ValidBody(req.data) /\ BodyTriple(req.data) \notin Triples(books))
        => /\ resp'.status = 201
           /\ \E row \in books' \ books :
                /\ books' = books \cup {row}
                /\ Triple(row) = BodyTriple(req.data)

DuplicateCreateRejected ==
    (CreateInHand /\ ValidBody(req.data) /\ BodyTriple(req.data) \in Triples(books))
        => /\ resp'.status = 400
           /\ resp'.errors = {"unique"}
           /\ books' = books

\* C1: the store never holds two Books with the same (title, author,
\* publication_year); a create of a valid triple that is not stored is answered
\* 201 and adds exactly one row with that triple; a create of a valid triple
\* that is already stored is answered 400 with the uniqueness error and leaves
\* the stored books as they were.
C1_UniqueTriple ==
    /\ []NoTwoBooksShareATriple
    /\ [][(req' = NoRequest) => (CreateStoresOnce /\ DuplicateCreateRejected)]_vars

\* C1 witness: a create has just been refused for the uniqueness error alone.
C1_Witness ==
    /\ resp.view = "BookListView"
    /\ resp.status = 400
    /\ resp.errors = {"unique"}
    /\ Cardinality(books) = 1

\* C4: every stored Book has a publication_year that is not after the current
\* year and a title that is not empty after trimming.
C4_StoredBooksValid ==
    \A b \in books :
        /\ b.publication_year <= current_year
        /\ Strip(b.title) # <<>>

\* C4 witness: a PATCH has just changed a stored Book, after the year turned.
C4_Witness ==
    /\ resp.method = "PATCH"
    /\ resp.status = 200
    /\ current_year > FirstYear
    /\ \E b \in books : b.id = resp.id /\ b.publication_year = current_year

(***************************************************************************)
(* Properties of the validators and cleaners.                              *)
(***************************************************************************)
\* C2: validate_publication_year rejects a year after the current year,
\* rejects a year before 1000, and returns every year from 1000 to the
\* current year unchanged.
C2_YearValidator ==
    call.fn = "validate_publication_year" =>
        /\ call.year > call.now => call.error # "ok"
        /\ call.year < 1000 => call.error # "ok"
        /\ (1000 <= call.year /\ call.year <= call.now) =>
                (call.error = "ok" /\ call.number = call.year)

\* C2 witness: the current year itself has been validated and returned.
C2_Witness ==
    /\ call.fn = "validate_publication_year"
    /\ call.year = call.now
    /\ call.now > FirstYear
    /\ call.error = "ok"

\* C5: the publication_year field of SecureBookForm accepts a year exactly
\* when it lies between 1000 and the current year, both included.
C5_ClosedRange ==
    call.fn = "SecureBookForm.publication_year" =>
        ((call.error = "ok") <=> (1000 <= call.year /\ call.year <= call.now))

\* C8: the sanitizer of clean_title and clean_description (trim, then
\* HTML-escape) is idempotent: cleaning a cleaned value is accepted and
\* returns that value, also when it holds &, <, > or a quote.
C8_Idempotent ==
    (call.fn \in {"clean_title", "clean_description"} /\ call.pass >= 2) =>
        (call.error = "ok" /\ call.value = call.text)

(***************************************************************************)
(* Properties of the bookshelf views.                                      *)
(***************************************************************************)
\* The text holds one of the promotional phrases, whatever the letter case.
HasSpam(text) == \E indicator \in SpamIndicators : Contains(Lower(text), indicator)

\* secure_add_comment has handled the comment form that resp answers.
CommentHandled ==
    /\ resp.view = "secure_add_comment"
    /\ resp.status = 302

\* C6: a comment whose body holds "http://", "https://", "www.", "click here"
\* or "buy now" in any letter case is rejected by SecureCommentForm, and
\* secure_add_comment reports it invalid, never added.
C6_SpamNeverValid ==
    (CommentHandled /\ HasSpam(resp.request.post.comment)) =>
        /\ "comment" \in resp.errors
        /\ resp.message = "Invalid comment. Please check your input."

\* A phrase written in upper case only was submitted with every other field
\* valid, and the comment is the one field refused.
C6_Witness ==
    /\ CommentHandled
    /\ HasSpam(resp.request.post.comment)
    /\ ~\E indicator \in SpamIndicators : Contains(resp.request.post.comment, indicator)
    /\ resp.errors = {"comment"}

\* secure_book_search has answered a search for the DROP TABLE query that
\* passed the CSRF check.
DropTableAnswered ==
    /\ resp.view = "secure_book_search"
    /\ resp.request.method = "POST"
    /\ resp.request.post.csrf
    /\ resp.request.post.query = DropTableQuery

\* secure_book_search is about to answer the DROP TABLE query.
DropTableInHand ==
    /\ req.view = "secure_book_search"
    /\ req.method = "POST"
    /\ req.post.csrf
    /\ req.post.query = DropTableQuery
    /\ req' = NoRequest

\* C10, as the specification words it: the DROP TABLE query is searched for
\* as an ordinary filter value: the answer is no error response, it lists
\* zero or more stored books, and the stored books are the same after the
\* request.
C10_OrdinaryFilterValue ==
    /\ [](DropTableAnswered =>
            /\ resp.status < 400
            /\ resp.found \subseteq {b.id : b \in shelf})
    /\ [][DropTableInHand => shelf' = shelf]_vars

\* C10, as the code has it: the DROP TABLE query is refused by
\* BookSearchForm.clean_query for its characters: the answer is 400 "Invalid
\* search query" with the query field in error (429 if the session is over
\* its search limit), no book is listed, and the stored books and the
\* session's search counter are the same after the request.
C10_QueryRefused ==
    /\ [](DropTableAnswered =>
            /\ resp.status \in {400, 429}
            /\ resp.status = 400 =>
                 ("query" \in resp.errors /\ resp.message = "Invalid search query")
            /\ resp.found = {})
    /\ [][DropTableInHand => (shelf' = shelf /\ search_count' = search_count)]_vars

C10_Witness ==
    /\ DropTableAnswered
    /\ resp.status = 400
    /\ resp.request.post.search_type = "title"
    /\ shelf # {}

(***************************************************************************)
(* Properties of the three title validators.                               *)
(***************************************************************************)
BlankTitle(title) == Strip(title) = <<>>

\* Request r submits a book whose title is empty or only whitespace, and r
\* gets as far as the form or serializer.
BlankTitleSubmission(r) ==
    \/ /\ r.view = "secure_book_create"
       /\ r.method = "POST"
       /\ r.post.csrf
       /\ r.post.honeypot = <<>>
       /\ BlankTitle(r.post.title)
    \/ /\ r.view \in {"BookListView", "BookDetailView"}
       /\ r.method \in {"POST", "PUT", "PATCH"}
       /\ r.auth
       /\ "title" \in r.data.fields
       /\ BlankTitle(r.data.title)
    \/ /\ r.view = "BookViewSet"
       /\ r.method = "POST"
       /\ BlankTitle(r.post.title)

\* The answer was given without running the validator: no such book, or
\* no permission.
NotValidated == resp.status \in {401, 403, 404}

\* The answer reports the title invalid.
TitleReportedInvalid ==
    IF resp.view = "secure_book_create"
    THEN resp.status = 200 /\ "title" \in resp.errors
    ELSE IF resp.view = "BookViewSet"
    THEN resp.status = 400 /\ "title" \in resp.errors
    ELSE /\ resp.status = 400
         /\ resp.errors \cap {"title.blank", "title.title_empty"} # {}

AllTables == <<books, shelf, api_books>>

\* C3: a submission whose title is empty or only whitespace is reported
\* invalid by SecureBookForm, by the advanced-api BookSerializer and by the
\* api_project BookSerializer, and handling it leaves every Book table as
\* it was.
C3_BlankTitleRejected ==
    /\ []((BlankTitleSubmission(resp.request) /\ ~NotValidated) => TitleReportedInvalid)
    /\ [][(BlankTitleSubmission(req) /\ req' = NoRequest) => AllTables' = AllTables]_vars

\* The advanced-api refused a create whose title is one space, after it
\* had stored another book.
C3_Witness ==
    /\ resp.view = "BookListView"
    /\ resp.status = 400
    /\ resp.request.data.title = <<" ">>
    /\ "title" \in resp.request.data.fields
    /\ books # {}

(***************************************************************************)
(* Properties of the role checks.                                          *)
(***************************************************************************)
\* The answer sends the browser to the login page: access denied.
Denied(answer) == answer.status = 302 /\ answer.errors = {"login"}

\* A guarded view is about to answer a logged-in user.
GuardedInHand ==
    /\ req.view \in RoleViews \cup BookViews
    /\ req.user # Anonymous
    /\ req' = NoRequest

\* The user holds no grant that reaches the view: no permission of the
\* user or its groups, and no superuser flag.
NoGrant(user) == accounts[user].perms = {} /\ ~accounts[user].is_superuser

\* C7: a user whose profile role is Admin is let into every role dashboard
\* and into the add, edit and delete Book views, also when no permission is
\* granted to the user; a user whose role is Member is let into the member
\* dashboard, and by the role alone is denied add, edit and delete.
C7_AdminAllMemberViewOnly ==
    [][GuardedInHand =>
         /\ accounts[req.user].role = "Admin" => ~Denied(resp')
         /\ accounts[req.user].role = "Member" =>
              /\ req.view = "member_view" => ~Denied(resp')
              /\ (req.view \in BookViews /\ NoGrant(req.user)) => Denied(resp')]_vars

\* C9: for a logged-in user without a UserProfile, is_admin, is_librarian
\* and is_member each return False and raise nothing, and admin_view,
\* librarian_view and member_view send the user to the login page.
C9_NoProfileNoAccess ==
    /\ [](\A u \in UserIds :
            (accounts[u].exists /\ accounts[u].role = "none") =>
                /\ is_admin(u) = "False"
                /\ is_librarian(u) = "False"
                /\ is_member(u) = "False")
    /\ [][(GuardedInHand /\ req.view \in RoleViews /\ accounts[req.user].role = "none")
            => Denied(resp')]_vars

\* admin_view has sent a logged-in user without a profile to the login page.
C9_Witness ==
    /\ resp.view = "admin_view"
    /\ Denied(resp)
    /\ resp.request.user # Anonymous
    /\ accounts[resp.request.user].exists
    /\ accounts[resp.request.user].role = "none"

(***************************************************************************)
(* Properties of the permission check of the advanced-api.                 *)
(***************************************************************************)
\* A Book endpoint is about to answer a client that sent no credentials.
UnauthenticatedInHand ==
    /\ req.view \in {"BookListView", "BookDetailView"}
    /\ ~req.auth
    /\ req' = NoRequest

C12_CreateRequiresLogin ==
    [][(req.view = "secure_book_create" /\ req.user = Anonymous /\ req' = NoRequest)
         => (resp'.status \in {302, 401, 403} /\ shelf' = shelf)]_vars

(***************************************************************************)
(* Properties of the error answers of api_project.                         *)
(***************************************************************************)
\* A detail handler of BookViewSet is about to answer a request whose pk
\* is a number no stored Book has.
AbsentIdInHand ==
    /\ req.view = "BookViewSet"
    /\ req.method \in {"GET", "PUT", "PATCH", "DELETE"}
    /\ req.pk # <<>>
    /\ PkNumber(req.pk) # -1
    /\ ~\E b \in api_books : b.id = PkNumber(req.pk)
    /\ req' = NoRequest
    /\ resp'.status \notin {401, 403}

\* C13: retrieve, update, partial_update and destroy on an id no Book has
\* answer 404 with the error "Book not found", never 500, and leave the
\* stored books as they are.
C13_AbsentIdNotFound ==
    [][AbsentIdInHand =>
         /\ resp'.status = 404
         /\ resp'.message = "Book not found"
         /\ UNCHANGED projectVars]_vars

\* The texts str(e) takes for the exceptions the handlers meet.
FailureTexts == {"", "No Book matches the given query."}

\* C14: a 500 answer of api_project carries no internal detail: its body is
\* the one the handler gives for a failure with any other exception text.
C14_GenericServerError ==
    (resp.status = 500 /\ resp.view \in {"BookList", "BookViewSet"}) =>
        \A text \in FailureTexts :
            LET other == ExceptResponse("Http404", text, resp.message)
            IN  other.message = resp.message /\ other.errors = resp.errors

(***************************************************************************)
(* Properties of the search counter of the bookshelf.                      *)
(***************************************************************************)
\* secure_book_search is about to answer a POST that passed the CSRF check.
SearchInHand ==
    /\ req.view = "secure_book_search"
    /\ req.method = "POST"
    /\ req.post.csrf
    /\ req' = NoRequest

OverlappingSearches(w, v) ==
    /\ w # v
    /\ searches[w].pc = "loaded" /\ searches[v].pc = "loaded"
    /\ searches'[w].pc = "answered"
    /\ searches[w].session_searches = searches[v].session_searches
    /\ searches[w].session_searches <= SearchLimit
    /\ BookSearchForm_errors(searches[w].post) = {}
    /\ BookSearchForm_errors(searches[v].post) = {}

\* C16: of two valid searches of one session that overlap and loaded the
\* same search_count, each is served and stores that count plus one (so that
\* one of the two increments is lost).
C16_OverlappingSearchesStore ==
    [][\A w, v \in 1..NumWorkers :
         OverlappingSearches(w, v) =>
            /\ searches'[w].status = 200
            /\ search_count' = searches[w].session_searches + 1]_vars

(***************************************************************************)
(* Properties of the honeypot fields.                                      *)
(***************************************************************************)
\* secure_book_create is about to answer a POST whose honeypot field holds
\* something.
HoneypotInHand ==
    /\ req.view = "secure_book_create"
    /\ req.method = "POST"
    /\ req.post.csrf
    /\ req.post.honeypot # <<>>
    /\ req' = NoRequest

FieldCleaned ==
    call.fn \in {"ExampleForm.clean_name", "SecureCommentForm.clean_name",
                 "SecureBookForm.clean_author", "BookSearchForm.clean_query"}

\* The trimmed text holds a character none of the four fields allows.
HasDisallowed(text) == \E i \in 1..Len(text) : text[i] \in {"!", "&"}

\* The trimmed and escaped text is shorter than the two characters every
\* one of the four fields asks for, or longer than the field's maximum
\* (kept in call.number).
OutsideLength(text) ==
    LET v == Strip(text)
    IN  v # <<>> /\ (Len(Escape(v)) < 2 \/ Len(v) > call.number)

\* C18, as the specification words it: a value that is outside the length
\* bounds and holds a disallowed character is reported with the length
\* message.
C18_LengthBeforeCharacters ==
    (FieldCleaned /\ OutsideLength(call.text) /\ HasDisallowed(Strip(call.text)))
        => call.error \in {"max_length", "too_long", "too_short"}

\* C18, as the code has it: the field trims the value and refuses one longer
\* than its maximum; the cleaner then escapes it, tests the characters, and
\* tests the minimum length last.  So a value over the maximum is reported
\* as too long whatever its characters, any other value with a disallowed
\* character as holding invalid characters, also when it is shorter than two
\* characters, and "too short" is reported only for a value whose characters
\* are all allowed.
C18_CharactersBeforeMinimum ==
    FieldCleaned =>
        LET v == Strip(call.text)
        IN  /\ v = <<>> => call.error = "required"
            /\ Len(v) > call.number => call.error = "max_length"
            /\ (v # <<>> /\ Len(v) <= call.number /\ HasDisallowed(v))
                  => call.error = "invalid_chars"
            /\ call.error = "too_short" => (~HasDisallowed(v) /\ Len(Escape(v)) < 2)
            /\ call.error = "ok" => (~HasDisallowed(v) /\ call.value = Escape(v))
            /\ call.error # "too_long"

\* ExampleForm.clean_name has refused "!", which is too short and holds a
\* disallowed character, for its character.
C18_Witness ==
    /\ call.fn = "ExampleForm.clean_name"
    /\ call.text = <<"!">>
    /\ call.error = "invalid_chars"

(***************************************************************************)
(* Properties of the UserProfile rows.                                     *)
(***************************************************************************)
ProfilesOf(u) == {p \in profiles : p.user = u}

\* C19: whatever users are created, saved and deleted, every User row has
\* exactly one UserProfile and every UserProfile belongs to a User row; the
\* step that inserts a User inserts its profile, with the role Member, and
\* the step that deletes a User leaves no profile of it.
C19_OneProfilePerUser ==
    /\ [](/\ \A u \in users : Cardinality(ProfilesOf(u)) = 1
          /\ \A p \in profiles : p.user \in users)
    /\ [][\A u \in 1..MaxAccounts :
            /\ (u \notin users /\ u \in users') =>
                  \E p \in profiles' \ profiles : p.user = u /\ p.role = "Member"
            /\ (u \in users /\ u \notin users') =>
                  ~\E p \in profiles' : p.user = u]_vars

\* A user that was created and had a role assigned has been saved again
\* and still has the one profile that was ever inserted.
C19_Witness ==
    /\ did = [op |-> "save", raised |-> "none"]
    /\ users # {}
    /\ Cardinality(profiles) = 1
    /\ profile_seq = 2
    /\ \E p \in profiles : p.role = "Admin"

\* C20: a step in which a worker saves the User instance it holds leaves the
\* role of every stored UserProfile as it was, also when the instance was
\* loaded before another worker assigned a new role.
C20_SaveKeepsRole ==
    [][did'.op = "save" =>
         \A p \in profiles : \A q \in profiles' : q.id = p.id => q.role = p.role]_vars

(***************************************************************************)
(* Properties of the effects of the advanced-api Book endpoints.           *)
(***************************************************************************)
\* A Book endpoint is about to answer a client that sent credentials.
AuthenticatedInHand ==
    /\ req.view \in {"BookListView", "BookDetailView"}
    /\ req.auth
    /\ req' = NoRequest

AuthorName(a) == IF a = 1 THEN <<"A", "a">> ELSE <<"b">>

\* The stored books that satisfy every filter of the query string.
Matching(table, params) ==
    {b \in table :
        /\ params.author # <<>> =>
              Contains(Lower(AuthorName(b.author)), Lower(params.author))
        /\ params.publication_year # 0 => b.publication_year = params.publication_year
        /\ params.publication_year_gte # 0 =>
              b.publication_year >= params.publication_year_gte
        /\ params.publication_year_lte # 0 =>
              b.publication_year <= params.publication_year_lte}

\* The list endpoint is about to answer a request that has filters only.
FilteredListInHand ==
    /\ req.view = "BookListView"
    /\ req.method = "GET"
    /\ req.params.search = <<>>
    /\ req' = NoRequest

\* C22: a list request with filters is answered 200 with exactly the stored
\* books that satisfy all the filters supplied: author (contained in the
\* author's name, ignoring case), publication_year, publication_year_gte and
\* publication_year_lte.
C22_FiltersSelect ==
    [][FilteredListInHand =>
         /\ resp'.status = 200
         /\ resp'.found = {b.id : b \in Matching(books, req.params)}]_vars

\* The list endpoint has answered a request with a list of books.
ListAnswered ==
    /\ resp.view = "BookListView"
    /\ resp.method = "GET"
    /\ resp.status = 200

\* The stored book with the given id.
BookOf(id) == CHOOSE b \in books : b.id = id

BookCodenames == {"can_view", "can_create", "can_edit", "can_delete"}

\* The Book codenames the group called name is granted; none when there is
\* no such group.
GrantsOf(name) ==
    UNION {g.permissions \cap BookCodenames : g \in {h \in groups : h.name = name}}

\* C24: once setup_groups has run, Viewers holds only can_view, Editors holds
\* can_view, can_create and can_edit on Book and not can_delete, Admins holds
\* the four Book codenames, so that the grants of Viewers are among those of
\* Editors and those among the grants of Admins; a further run changes
\* nothing.
C24_GroupGrants ==
    /\ [](call.fn = "setup_groups" =>
            /\ GrantsOf("Viewers") = {"can_view"}
            /\ GrantsOf("Editors") = {"can_view", "can_create", "can_edit"}
            /\ GrantsOf("Admins") = BookCodenames
            /\ GrantsOf("Viewers") \subseteq GrantsOf("Editors")
            /\ GrantsOf("Editors") \subseteq GrantsOf("Admins"))
    /\ [][(call.fn = "setup_groups" /\ call'.fn = "setup_groups") =>
            groups' = groups]_vars

(***************************************************************************)
(* Properties of saving a User.                                            *)
(***************************************************************************)
\* C25: a login, which saves the User row, is never answered with a server
\* error: save_user_profile completes for every saved user, also for one
\* whose UserProfile row is absent.
C25_SaveNeverRaises ==
    resp.view = "LoginView" => resp.status # 500

(***************************************************************************)
(* Properties of what secure_book_create stores.                           *)
(***************************************************************************)
\* secure_book_create is about to answer a POST that passed the CSRF check
\* and whose honeypot field is empty.
BookSubmissionInHand ==
    /\ req.view = "secure_book_create"
    /\ req.method = "POST"
    /\ req.post.csrf
    /\ req.post.honeypot = <<>>
    /\ req' = NoRequest

\* C26: a submission with an empty honeypot whose form is valid stores
\* exactly one new Book, with the cleaned title, author and year, and is
\* answered with a redirect; one whose form is invalid stores nothing and
\* gets the form again with its errors.
C26_ValidSubmissionStored ==
    [][BookSubmissionInHand =>
         IF SecureBookForm_errors(req.post) = {}
         THEN /\ resp'.status = 302
              /\ \E row \in shelf' \ shelf :
                    /\ shelf' = shelf \cup {row}
                    /\ row.title = SecureBookForm(req.post).title.value
                    /\ row.author = SecureBookForm(req.post).author.value
                    /\ row.publication_year = SecureBookForm(req.post).publication_year.value
         ELSE /\ resp'.status = 200
              /\ resp'.errors # {}
              /\ shelf' = shelf]_vars

(***************************************************************************)
(* Properties of the characters the text fields accept.                    *)
(***************************************************************************)
\* The characters the pattern of a cleaner lists.
PatternLists(fn) ==
    IF fn = "BookSearchForm.clean_query"
    THEN Letters \cup Digits \cup Whitespace \cup {"-", ".", ",", "'", "\"", "(", ")"}
    ELSE Letters \cup Whitespace \cup {"-", "'", "."}

\* C27: ExampleForm.clean_name, SecureCommentForm.clean_name and
\* BookSearchForm.clean_query accept every value of two characters or more,
\* within the field's maximum, that is made only of the characters the
\* cleaner's pattern lists, an apostrophe or a double quote included.
C27_ListedCharactersPass ==
    (/\ call.fn \in {"ExampleForm.clean_name", "SecureCommentForm.clean_name",
                     "BookSearchForm.clean_query"}
     /\ Len(Strip(call.text)) \in 2..call.number
     /\ MatchesClass(Strip(call.text), PatternLists(call.fn)))
        => call.error = "ok"

(***************************************************************************)
(* Properties of the partial update of the advanced-api.                   *)
(***************************************************************************)
\* BookDetailView is about to answer a PATCH, sent with credentials, that
\* carries only publication_year, for a stored book.
YearPatchInHand ==
    /\ AuthenticatedInHand
    /\ req.view = "BookDetailView"
    /\ req.method = "PATCH"
    /\ req.data.fields = {"publication_year"}
    /\ \E b \in books : b.id = req.id

\* C28: a PATCH that omits the title and carries only a valid
\* publication_year (one that would not make the book collide with another
\* stored book) is answered 200; the stored year becomes the new value and
\* the stored title and author stay as they were.
C28_YearOnlyPatchAccepted ==
    [][(/\ YearPatchInHand
        /\ YearFieldErrors(req.data, TRUE, current_year, import_year) = {}
        /\ UniqueTogetherErrors(Merged(req.data, BookOf(req.id)), books) = {})
          => /\ resp'.status = 200
             /\ books' = (books \ {BookOf(req.id)})
                           \cup {[BookOf(req.id) EXCEPT
                                     !.publication_year = req.data.publication_year]}]_vars

(***************************************************************************)
(* Properties of delete_book_view.                                         *)
(***************************************************************************)
\* The user of the request in hand holds can_delete_book, by a grant or as
\* a superuser.
MayDelete ==
    /\ req.user # Anonymous
    /\ "can_delete_book" \in accounts[req.user].perms \/ accounts[req.user].is_superuser

\* C29: a Book row leaves the table only in a step of delete_book_view that
\* answers a POST of a user who holds can_delete_book, and then exactly the
\* row named by pk leaves; a GET of such a user for a stored book is
\* answered with the confirmation page and deletes nothing; a request of a
\* user without the grant, or of nobody, is sent to the login page and
\* deletes nothing.
C29_DeleteOnlyPermittedPost ==
    /\ [][library_books' # library_books /\ library_books' \subseteq library_books =>
            /\ req.view = "delete_book_view"
            /\ req.method = "POST"
            /\ MayDelete
            /\ req.id \in library_books
            /\ library_books' = library_books \ {req.id}]_vars
    /\ [][(req.view = "delete_book_view" /\ req' = NoRequest) =>
            /\ (MayDelete /\ req.method = "POST" /\ req.id \in library_books) =>
                  library_books' = library_books \ {req.id}
            /\ (MayDelete /\ req.method = "GET" /\ req.id \in library_books) =>
                  resp'.status = 200 /\ library_books' = library_books
            /\ ~MayDelete => Denied(resp') /\ library_books' = library_books]_vars

\* A permitted POST has deleted one of two stored books; the other is still
\* stored.
C29_Witness ==
    /\ resp.view = "delete_book_view"
    /\ resp.method = "POST"
    /\ resp.message = "Book deleted successfully."
    /\ library_books # {}
    /\ resp.id \notin library_books

(***************************************************************************)
(* Properties of the search limit.                                         *)
(***************************************************************************)
\* Worker w has answered its search with the given status.
Answered(w, status) == searches[w].pc = "answered" /\ searches[w].status = status

====
